---- MODULE Spec2Model ----
(***************************************************************************)
(* The weekly allocator of life-planner (src/src/store.ts, the scheduler   *)
(* module) and the capacity evaluator it calls (src/unnamed/part_001).     *)
(*                                                                         *)
(* Representation.                                                         *)
(*  - A clock-time string "HH:mm" is the pair <<HH, mm>> of the numbers    *)
(*    its two fields denote; timeToMinutes and minutesToTime are the       *)
(*    conversions between a pair and a minute count, computed as the code  *)
(*    computes them (floor division, JavaScript remainder).  A string      *)
(*    whose fields Number() does not read ("9am", and the "NaN:NaN" that   *)
(*    minutesToTime prints for NaN) is the pair <<NaN, NaN>>.              *)
(*  - A date string "YYYY-MM-DD" is the number of its day; the window of   *)
(*    weekStart is weekStart .. weekStart + 6, and localeCompare on dates  *)
(*    is the order of the day numbers.  A weekStart that new Date() does   *)
(*    not read is NaN, the time value of an Invalid Date.                  *)
(*  - NaN is one reserved number; the arithmetic and the comparisons of    *)
(*    the code go through Plus, Minus, Min, Gt, Ge and Lt, which treat it   *)
(*    as JavaScript does.                                                  *)
(*  - An optional field (deadline?, dueTime?, weeklyQuotaSessions?, ...)   *)
(*    is the empty set when undefined and {v} when set to v.               *)
(*  - One run of runWeeklyScheduler is a sequence of steps, one per loop   *)
(*    iteration of the code, in the code's order; pc names the loop the    *)
(*    run is in, and output is the value the call returns.                 *)
(***************************************************************************)
EXTENDS Integers, Sequences, FiniteSets, TLC

VARIABLES
    tasks,             \* state.tasks
    goals,             \* state.goals
    capacity,          \* state.capacity
    weekStart,         \* the weekStart argument (a day number)
    idPool,            \* the values blockId() may return in this run
    blocks,            \* const blocks: ScheduledBlock[]
    pc,                \* the loop the run is in
    i,                 \* position in fixedTasks / deadlineTasks / activeGoals
    di,                \* position in dayDates (passes 3 and 4)
    scheduledTaskIds,  \* const scheduledTaskIds (pass 3)
    goalTasks,         \* const goalTasks of the goal being served (pass 3)
    sessionsPlaced,    \* let sessionsPlaced (pass 3)
    output,            \* the returned array, <<>> until the run returns
    prevOutput,        \* the tuples returned by the previous run, if any
    scheduledBlocks,   \* state.scheduledBlocks
    check,             \* the last result of wouldExceedDailyLimits on the store
    rendered,          \* state.goals as the callbacks of the last render hold it
    totalArg,          \* the argument of a call of minutesToTime
    clockStr,          \* the text the call returned, if it was made
    parsed,            \* timeToMinutes of that text, if it was computed
    listItems,         \* the items argument of scheduleListIntoCalendar
    existingEvents,    \* its existingEvents argument
    nowSecs,           \* Date.now() of the call, in seconds from today 00:00
    dayShift,          \* days between a local noon and its UTC date
    eventsSoFar,       \* const eventsSoFar
    slots,             \* const slots
    itemPos,           \* position of the for loop in items
    returned,          \* the call has returned slots
    calendarEvents,    \* state.calendarEvents
    eventsSeen,        \* state.calendarEvents as the addEvent of the last render holds it
    updates,           \* the updates dispatched and not yet applied by React
    handedSlots,       \* the slots of the last call of onAddCalendarEvents
    signedIn,          \* Boolean(user)
    appState,          \* the state of useStore
    cloudRow,          \* the row of the user in user_state, if there is one
    cloudLoadedRef,    \* cloudLoadedRef.current
    loadPhase,         \* how far the call of loadFromSupabase is
    loadResult,        \* what its select read
    saveTimeout,       \* a debounce timer is armed
    pendingState,      \* let pendingState
    toSave,            \* the state a fired timer is about to upsert
    stateAtSignIn      \* the state of useStore when the user signed in

vars == <<tasks, goals, capacity, weekStart, idPool, blocks, pc, i, di,
          scheduledTaskIds, goalTasks, sessionsPlaced, output, prevOutput,
          scheduledBlocks, check, rendered, totalArg, clockStr, parsed,
          listItems, existingEvents, nowSecs, dayShift, eventsSoFar, slots, itemPos,
          returned, calendarEvents, eventsSeen, updates, handedSlots,
          signedIn, appState, cloudRow, cloudLoadedRef, loadPhase, loadResult,
          saveTimeout, pendingState, toSave, stateAtSignIn>>

inputs == <<tasks, goals, capacity, weekStart, idPool>>

store == <<scheduledBlocks, check, rendered>>

clock == <<totalArg, clockStr, parsed>>

\* the state outside the allocator and the store of goals and blocks
listing == <<listItems, existingEvents, nowSecs, dayShift, eventsSoFar, slots, itemPos,
             returned>>

adding == <<calendarEvents, eventsSeen, updates, handedSlots>>

sync == <<signedIn, appState, cloudRow, cloudLoadedRef, loadPhase, loadResult,
          saveTimeout, pendingState, toSave, stateAtSignIn>>

side == <<clock, listing, adding, sync>>

\* the state of the allocator and of the store of goals and blocks
scheduler == <<inputs, store, blocks, pc, i, di, scheduledTaskIds, goalTasks,
               sessionsPlaced, output, prevOutput>>

(***************************************************************************)
(* Bounds of the model.                                                    *)
(***************************************************************************)
MaxTasks == 2

(***************************************************************************)
(* Program constants.                                                      *)
(***************************************************************************)
WindowDays == 7
MinGoalSlotMins == 30
MicroMaxEstimate == 15
MicroSlackMins == 20
MicroTotalMins == 20
MicroBufferMins == 5

(***************************************************************************)
(* Optional values.                                                        *)
(***************************************************************************)
None == {}
Some(v) == {v}
IsSet(o) == o # {}
Val(o) == CHOOSE v \in o : TRUE

\* no call of minutesToTime is under way
ClockIdle == totalArg = 0 /\ clockStr = None /\ parsed = None

\* no call of scheduleListIntoCalendar is under way
ListingIdle ==
    /\ listItems = <<>>
    /\ existingEvents = <<>>
    /\ nowSecs = 0
    /\ dayShift = 0
    /\ eventsSoFar = <<>>
    /\ slots = <<>>
    /\ itemPos = 1
    /\ returned = FALSE

\* no calendar event, no update under way
AddingIdle ==
    /\ calendarEvents = <<>>
    /\ eventsSeen = <<>>
    /\ updates = <<>>
    /\ handedSlots = <<>>

\* signed out, nothing loaded or saved
SyncIdle ==
    /\ signedIn = FALSE
    /\ appState = None
    /\ cloudRow = None
    /\ cloudLoadedRef = FALSE
    /\ loadPhase = "none"
    /\ loadResult = None
    /\ saveTimeout = FALSE
    /\ pendingState = None
    /\ toSave = None
    /\ stateAtSignIn = None

SideIdle == ClockIdle /\ ListingIdle /\ AddingIdle /\ SyncIdle

(***************************************************************************)
(* Arithmetic of the JavaScript runtime on the integers the code meets.    *)
(***************************************************************************)
\* Math.ceil(n / d) for d > 0
CeilDiv(n, d) == -((-n) \div d)

\* a % b of JavaScript: the remainder has the sign of the dividend
JsRem(a, b) == IF a >= 0 THEN a % b ELSE -((-a) % b)

\* the value of Number("9am"), and of any sum that has it as a term
NaN == -1000000

IsNaN(x) == x = NaN

\* a + b and a - b: NaN when either operand is NaN
Plus(a, b) == IF IsNaN(a) \/ IsNaN(b) THEN NaN ELSE a + b
Minus(a, b) == IF IsNaN(a) \/ IsNaN(b) THEN NaN ELSE a - b

\* a > b, a >= b and a < b: false when either operand is NaN
Gt(a, b) == ~IsNaN(a) /\ ~IsNaN(b) /\ a > b
Ge(a, b) == ~IsNaN(a) /\ ~IsNaN(b) /\ a >= b
Lt(a, b) == ~IsNaN(a) /\ ~IsNaN(b) /\ a < b

\* Math.max(a, b): NaN when either operand is NaN
Max(a, b) == IF IsNaN(a) \/ IsNaN(b) THEN NaN ELSE IF a >= b THEN a ELSE b

\* Math.min(a, b): NaN when either operand is NaN
Min(a, b) == IF IsNaN(a) \/ IsNaN(b) THEN NaN ELSE IF a <= b THEN a ELSE b

\* Math.ceil(estimatedMinutes * BUFFER_MULTIPLIER), BUFFER_MULTIPLIER = 1.25 = 5/4
BufferedMins(est) == CeilDiv(est * 5, 4)

\* Math.ceil(estimatedMinutes * (capacity.bufferPercent / 100))
BufferMins(est, cap) == CeilDiv(est * cap.bufferPercent, 100)

(***************************************************************************)
(* Time arithmetic (store.ts 241-250).                                     *)
(***************************************************************************)
\* h * 60 + m, h and m the Number() of the two fields
timeToMinutes(t) == IF IsNaN(t[1]) \/ IsNaN(t[2]) THEN NaN ELSE t[1] * 60 + t[2]

\* Math.floor(NaN) and NaN % 60 are NaN, printed "NaN"
minutesToTime(total) ==
    IF IsNaN(total) THEN <<NaN, NaN>> ELSE <<total \div 60, JsRem(total, 60)>>

\* dayDates: the 7 dates of the window
dayDates == [k \in 1..WindowDays |-> weekStart + (k - 1)]

InWindow(date) == \E k \in 1..WindowDays : dayDates[k] = date

(***************************************************************************)
(* Capacity evaluator (part_001).                                          *)
(***************************************************************************)
\* the status test of the evaluator, were it to count completed blocks too
PendingOrCompleted(b) ==
    b.status = "pending" \/ b.status = "in_progress" \/ b.status = "completed"

Pending(b) == b.status = "pending" \/ b.status = "in_progress"

RECURSIVE SumPlanned(_, _, _)
SumPlanned(bs, date, includeBuffer) ==
    IF bs = <<>> THEN 0
    ELSE LET b == Head(bs)
             blockMins == Minus(timeToMinutes(b.endTime), timeToMinutes(b.startTime))
         IN  Plus(IF b.date = date /\ Pending(b)
                     THEN Plus(blockMins, IF includeBuffer THEN b.bufferMinutes ELSE 0)
                     ELSE 0,
                  SumPlanned(Tail(bs), date, includeBuffer))

getPlannedMinutesForDay(bs, date) == SumPlanned(bs, date, TRUE)

getDeepBlockCountForDay(bs, date) ==
    Cardinality({k \in 1..Len(bs) :
        bs[k].date = date /\ bs[k].energyType = "Deep" /\ Pending(bs[k])})

\* the two reason strings, by their fixed text and the number they interpolate
TimeReason(cap) == <<"Daily planned time would exceed", cap.maxPlannedHoursPerDay>>
DeepReason(cap) == <<"Max deep-work blocks per day", cap.maxDeepBlocksPerDay>>

\* the evaluator, were it to run the deep-block check before the total-time check
wouldExceedDailyLimitsDeepFirst(cap, bs, date, newBlockMinutes, energyType) ==
    LET plannedMins == getPlannedMinutesForDay(bs, date)
        maxMins == cap.maxPlannedHoursPerDay * 60
    IN  IF energyType = "Deep"
           /\ getDeepBlockCountForDay(bs, date) >= cap.maxDeepBlocksPerDay
           THEN [ok |-> FALSE, reason |-> Some(DeepReason(cap))]
        ELSE IF Gt(Plus(plannedMins, newBlockMinutes), maxMins)
             THEN [ok |-> FALSE, reason |-> Some(TimeReason(cap))]
        ELSE [ok |-> TRUE, reason |-> None]

\* the result { ok, reason? }
wouldExceedDailyLimits(cap, bs, date, newBlockMinutes, energyType) ==
    LET plannedMins == getPlannedMinutesForDay(bs, date)
        maxMins == cap.maxPlannedHoursPerDay * 60
    IN  IF Gt(Plus(plannedMins, newBlockMinutes), maxMins)
           THEN [ok |-> FALSE, reason |-> Some(TimeReason(cap))]
        ELSE IF energyType = "Deep"
                /\ getDeepBlockCountForDay(bs, date) >= cap.maxDeepBlocksPerDay
             THEN [ok |-> FALSE, reason |-> Some(DeepReason(cap))]
        ELSE [ok |-> TRUE, reason |-> None]

(***************************************************************************)
(* runWeeklyScheduler (store.ts 256-397): setup and the values each pass   *)
(* computes.                                                               *)
(***************************************************************************)
workStartMins == timeToMinutes(capacity.workStart)
workEndMins == timeToMinutes(capacity.workEnd)

NewBlock(id, taskId, date, startTime, endTime, buffer, energyType, sortOrder) ==
    [id |-> id, taskId |-> taskId, date |-> date, startTime |-> startTime,
     endTime |-> endTime, bufferMinutes |-> buffer, energyType |-> energyType,
     status |-> "pending", sortOrder |-> sortOrder]

\* the filter of fixedTasks without its test of completed
IsFixedTaskAnyCompletion(t) ==
    \/ t.taskType = "FixedEvent"
    \/ (t.taskType = "DeadlineTask" /\ IsSet(t.dueTime))

\* 1) the filter of fixedTasks
IsFixedTask(t) ==
    /\ ~t.completed
    /\ \/ t.taskType = "FixedEvent"
       \/ (t.taskType = "DeadlineTask" /\ IsSet(t.dueTime))

fixedTasks == SelectSeq(tasks, IsFixedTask)

\* task.deadline ? task.deadline.slice(0, 10) : dayDates[0]
FixedDate(task) == IF IsSet(task.deadline) THEN Val(task.deadline) ELSE dayDates[1]

\* task.dueTime ?? capacity.workStart
FixedStart(task) == IF IsSet(task.dueTime) THEN Val(task.dueTime) ELSE capacity.workStart

\* the body of the pass 1 loop, were it to run the check of passes 2 and 3
Pass1PlaceChecked(bs, task, id) ==
    LET date == IF IsSet(task.deadline) THEN Val(task.deadline) ELSE dayDates[1]
        mins == BufferedMins(task.estimatedMinutes)
        buffer == BufferMins(task.estimatedMinutes, capacity)
        start == IF IsSet(task.dueTime) THEN Val(task.dueTime) ELSE capacity.workStart
        endMins == Plus(timeToMinutes(start), mins + buffer)
    IN  IF ~InWindow(date) THEN bs
        ELSE IF ~wouldExceedDailyLimits(capacity, bs, date, mins + buffer,
                                        task.energyType).ok
             THEN bs
        ELSE Append(bs, NewBlock(id, task.id, date, start, minutesToTime(endMins),
                                 buffer, task.energyType, 1))

\* the body of the pass 1 loop: the block list after the iteration for task
Pass1Place(bs, task, id) ==
    LET date == FixedDate(task)
        mins == BufferedMins(task.estimatedMinutes)
        buffer == BufferMins(task.estimatedMinutes, capacity)
        start == FixedStart(task)
        startMins == timeToMinutes(start)
        endMins == Plus(startMins, mins + buffer)
    IN  IF ~InWindow(date) THEN bs
        ELSE Append(bs, NewBlock(id, task.id, date, start, minutesToTime(endMins),
                                 buffer, task.energyType, 1))

\* 2) the filter of deadlineTasks
IsDeadlineTask(t) ==
    /\ ~t.completed
    /\ t.taskType = "DeadlineTask"
    /\ IsSet(t.deadline)
    /\ ~IsSet(t.dueTime)
    /\ ~\E k \in 1..Len(fixedTasks) : fixedTasks[k].id = t.id

deadlineTasks == SelectSeq(tasks, IsDeadlineTask)

\* a start that does not look at the minutes already planned
StackedStartAtWorkStart(bs, date, duration) == workStartMins

\* a start that stacks without the clamp of Math.min
StackedStartUnclamped(bs, date, duration) ==
    Plus(workStartMins, getPlannedMinutesForDay(bs, date))

\* workStartMins + Math.min(existingMins, (workEndMins - workStartMins) - duration)
StackedStart(bs, date, duration) ==
    Plus(workStartMins,
         Min(getPlannedMinutesForDay(bs, date),
             Minus(Minus(workEndMins, workStartMins), duration)))

\* the block passes 2 and 3 push for task on date
StackedBlock(bs, task, date, id, sortOrder) ==
    LET totalMins == BufferedMins(task.estimatedMinutes)
        buffer == BufferMins(task.estimatedMinutes, capacity)
        startMins == StackedStart(bs, date, totalMins + buffer)
    IN  NewBlock(id, task.id, date, minutesToTime(startMins),
                 minutesToTime(Plus(startMins, totalMins + buffer)),
                 buffer, task.energyType, sortOrder)

\* check.ok of passes 2 and 3 for task on date
LimitsOk(bs, task, date) ==
    wouldExceedDailyLimits(capacity, bs, date,
        BufferedMins(task.estimatedMinutes) + BufferMins(task.estimatedMinutes, capacity),
        task.energyType).ok

\* the body of the pass 2 loop without its call of wouldExceedDailyLimits
Pass2PlaceUnchecked(bs, task, id) ==
    LET date == Val(task.deadline)
    IN  IF ~InWindow(date) THEN bs
        ELSE Append(bs, StackedBlock(bs, task, date, id, 2))

\* the body of the pass 2 loop
Pass2Place(bs, task, id) ==
    LET date == Val(task.deadline)
    IN  IF ~InWindow(date) THEN bs
        ELSE IF ~LimitsOk(bs, task, date) THEN bs
        ELSE Append(bs, StackedBlock(bs, task, date, id, 2))

\* 3) state.goals.filter((g) => g.active).sort((a, b) => a.priorityTier - b.priorityTier)
RECURSIVE InsertGoal(_, _)
InsertGoal(g, sorted) ==
    IF sorted = <<>> THEN <<g>>
    ELSE IF g.priorityTier - Head(sorted).priorityTier < 0 THEN <<g>> \o sorted
    ELSE <<Head(sorted)>> \o InsertGoal(g, Tail(sorted))

RECURSIVE SortGoals(_)
SortGoals(gs) ==
    IF gs = <<>> THEN <<>>
    ELSE InsertGoal(gs[Len(gs)], SortGoals(SubSeq(gs, 1, Len(gs) - 1)))

\* the filter of activeGoals, were it to keep every goal of the list
IsListed(g) == TRUE

IsActive(g) == g.active

\* the active goals in the order of the store, without the sort
activeGoalsUnsorted == SelectSeq(goals, IsActive)

activeGoals == SortGoals(SelectSeq(goals, IsActive))

\* goal.weeklyQuotaSessions ?? (goal.weeklyQuotaHours ? Math.ceil(goal.weeklyQuotaHours) : 0)
\* weeklyQuotaHours is the fraction <<numerator, denominator>>
quotaSessions(goal) ==
    IF IsSet(goal.weeklyQuotaSessions) THEN Val(goal.weeklyQuotaSessions)
    ELSE IF IsSet(goal.weeklyQuotaHours) /\ Val(goal.weeklyQuotaHours)[1] # 0
         THEN CeilDiv(Val(goal.weeklyQuotaHours)[1], Val(goal.weeklyQuotaHours)[2])
    ELSE 0

\* the filter of goalTasks, for goal and the ids scheduled so far
GoalTasksOf(goal, scheduled) ==
    LET Linked(t) == /\ ~t.completed
                     /\ t.taskType = "GoalTask"
                     /\ t.goalId = Some(goal.id)
                     /\ t.id \notin scheduled
    IN  SelectSeq(tasks, Linked)

\* goalTasks.find(Deep && under the cap) ?? goalTasks.find(under the cap) ?? goalTasks[0]
PickGoalTask(gTasks, deepCount) ==
    LET under == deepCount < capacity.maxDeepBlocksPerDay
        deeps == {k \in 1..Len(gTasks) : gTasks[k].energyType = "Deep" /\ under}
        anys == {k \in 1..Len(gTasks) : under}
        First(S) == CHOOSE k \in S : \A j \in S : k <= j
    IN  IF deeps # {} THEN Some(gTasks[First(deeps)])
        ELSE IF anys # {} THEN Some(gTasks[First(anys)])
        ELSE IF Len(gTasks) > 0 THEN Some(gTasks[1])
        ELSE None

\* the pass 3 selection without its test of maxNewMins
Pass3TaskAnySlot(bs, gTasks, date) ==
    LET task == PickGoalTask(gTasks, getDeepBlockCountForDay(bs, date))
    IN  IF ~IsSet(task) THEN None
        ELSE IF ~LimitsOk(bs, Val(task), date) THEN None
        ELSE task

\* the task the pass 3 loop pushes a block for on date, if any
Pass3Task(bs, gTasks, date) ==
    LET deepCount == getDeepBlockCountForDay(bs, date)
        plannedMins == getPlannedMinutesForDay(bs, date)
        maxNewMins == Minus(capacity.maxPlannedHoursPerDay * 60, plannedMins)
        task == PickGoalTask(gTasks, deepCount)
    IN  IF Lt(maxNewMins, MinGoalSlotMins) THEN None
        ELSE IF ~IsSet(task) THEN None
        ELSE IF ~LimitsOk(bs, Val(task), date) THEN None
        ELSE task

\* a filter of microTasks that does not look at the estimate
IsMicroTaskAnyEstimate(t) ==
    /\ ~t.completed
    /\ t.taskType = "MicroTask"

\* 4) the filter of microTasks
IsMicroTask(t) ==
    /\ ~t.completed
    /\ t.taskType = "MicroTask"
    /\ t.estimatedMinutes <= MicroMaxEstimate

microTasks == SelectSeq(tasks, IsMicroTask)

\* microTasks.find((t) => !blocks.some((b) => b.taskId === t.id && b.date === date))
PickMicroTask(bs, date) ==
    LET free == {k \in 1..Len(microTasks) :
                    ~\E j \in 1..Len(bs) :
                        bs[j].taskId = microTasks[k].id /\ bs[j].date = date}
    IN  IF free = {} THEN None
        ELSE Some(microTasks[CHOOSE k \in free : \A j \in free : k <= j])

\* the body of the pass 4 loop
Pass4Place(bs, date, id) ==
    LET planned == getPlannedMinutesForDay(bs, date)
        task == PickMicroTask(bs, date)
        totalMins == MicroTotalMins
        startMins == StackedStart(bs, date, totalMins)
    IN  IF Ge(planned, capacity.maxPlannedHoursPerDay * 60 - MicroSlackMins) THEN bs
        ELSE IF ~IsSet(task) THEN bs
        ELSE Append(bs, NewBlock(id, Val(task).id, date, minutesToTime(startMins),
                                 minutesToTime(Plus(startMins, totalMins)),
                                 MicroBufferMins, "Light", 4))

\* a comparator that looks at sortOrder alone
BlockBeforeBySortOrder(a, b) == a.sortOrder - b.sortOrder < 0

\* a comparator that falls back on the block ids
BlockBeforeOrById(a, b) ==
    IF a.date # b.date THEN a.date < b.date
    ELSE IF a.sortOrder # b.sortOrder THEN a.sortOrder < b.sortOrder
    ELSE a.id < b.id

\* blocks.sort: by date, then by sortOrder; Array.prototype.sort is stable
BlockBefore(a, b) ==
    IF a.date # b.date THEN a.date < b.date ELSE a.sortOrder - b.sortOrder < 0

RECURSIVE InsertBlock(_, _)
InsertBlock(b, sorted) ==
    IF sorted = <<>> THEN <<b>>
    ELSE IF BlockBefore(b, Head(sorted)) THEN <<b>> \o sorted
    ELSE <<Head(sorted)>> \o InsertBlock(b, Tail(sorted))

RECURSIVE SortBlocks(_)
SortBlocks(bs) ==
    IF bs = <<>> THEN <<>>
    ELSE InsertBlock(bs[Len(bs)], SortBlocks(SubSeq(bs, 1, Len(bs) - 1)))

\* applyUpdate, case 'setScheduledBlocks', were it to keep the stored blocks
MergeBlocks(stored, newBlocks) == stored \o newBlocks

\* applyUpdate, case 'setScheduledBlocks': { ...state, scheduledBlocks: update.blocks }
ReplaceBlocks(stored, newBlocks) == newBlocks

(***************************************************************************)
(* The inputs of a run.                                                    *)
(***************************************************************************)
Task(taskType, goalId, est, energyType, deadline, dueTime, completed) ==
    [id |-> 0, taskType |-> taskType, goalId |-> goalId, estimatedMinutes |-> est,
     energyType |-> energyType, deadline |-> deadline, dueTime |-> dueTime,
     completed |-> completed]

Goal(priorityTier, active, sessions, hours) ==
    [id |-> 0, priorityTier |-> priorityTier, active |-> active,
     weeklyQuotaSessions |-> sessions, weeklyQuotaHours |-> hours]

\* the tasks a list is drawn from, for the window that starts on day ws
TaskPool(ws) ==
    { Task("FixedEvent", None, 30, "Deep", None, None, FALSE),
      Task("FixedEvent", None, 30, "Deep", Some(ws), Some(<<9, 30>>), FALSE),
      Task("FixedEvent", None, 40, "Light", Some(ws + WindowDays), None, FALSE),
      Task("FixedEvent", None, 30, "Light", Some(ws), None, TRUE),
      Task("DeadlineTask", None, 30, "Light", Some(ws), Some(<<10, 0>>), FALSE),
      Task("DeadlineTask", None, 40, "Deep", Some(ws), None, FALSE),
      Task("DeadlineTask", None, 30, "Light", Some(ws), None, FALSE),
      Task("DeadlineTask", None, 30, "Light", Some(ws - 1), None, FALSE),
      Task("DeadlineTask", None, 30, "Light", Some(ws), None, TRUE),
      Task("GoalTask", Some(1), 30, "Deep", None, None, FALSE),
      Task("GoalTask", Some(1), 40, "Light", None, None, FALSE),
      Task("GoalTask", Some(2), 30, "Deep", None, None, FALSE),
      Task("GoalTask", Some(1), 30, "Deep", None, None, TRUE),
      Task("MicroTask", None, 10, "Deep", None, None, FALSE),
      Task("MicroTask", None, 20, "Light", None, None, FALSE),
      Task("MicroTask", None, 15, "Admin", None, None, TRUE) }

\* lists of exactly n elements of pool, the element at position k having id k
Numbered(pool, n) ==
    { [k \in 1..n |-> [f[k] EXCEPT !.id = k]] : f \in [1..n -> pool] }

\* the goal lists of a store: the goal at position k has id k
GoalLists ==
    { <<>>,
      <<Goal(1, TRUE, Some(2), None)>>,
      <<Goal(1, TRUE, None, Some(<<0, 1>>))>>,
      <<Goal(1, TRUE, Some(2), None), Goal(2, TRUE, None, Some(<<3, 2>>))>>,
      <<Goal(2, TRUE, Some(1), None), Goal(1, TRUE, Some(2), None)>>,
      <<Goal(1, FALSE, Some(1), None), Goal(1, TRUE, Some(1), None)>> }

WithIds(list) == [k \in 1..Len(list) |-> [list[k] EXCEPT !.id = k]]

Capacity(hours, deep, percent, workStart, workEnd) ==
    [maxPlannedHoursPerDay |-> hours, maxDeepBlocksPerDay |-> deep,
     bufferPercent |-> percent, workStart |-> workStart, workEnd |-> workEnd]

CapacityPool ==
    { Capacity(1, 1, 25, <<9, 0>>, <<17, 0>>),
      Capacity(2, 1, 25, <<9, 0>>, <<17, 0>>),
      Capacity(1, 2, 40, <<9, 0>>, <<17, 0>>),
      Capacity(2, 2, 25, <<9, 0>>, <<17, 0>>) }

\* DEFAULT_CAPACITY (the fields the allocator reads)
DEFAULT_CAPACITY == Capacity(6, 3, 25, <<9, 0>>, <<17, 0>>)

\* a week of sessions: five Deep goal tasks of 60 minutes, linked to goal 1
QuotaWeekTasks ==
    [k \in 1..5 |->
        [Task("GoalTask", Some(1), 60, "Deep", None, None, FALSE) EXCEPT !.id = k]]

\* one active tier-1 goal with a weekly target of 5 sessions
QuotaWeekGoals == WithIds(<<Goal(1, TRUE, Some(5), None)>>)

\* a goalId names a goal of the store
GoalIdsExist(ts, gs) ==
    \A k \in 1..Len(ts) : \A g \in ts[k].goalId : \E j \in 1..Len(gs) : gs[j].id = g

Init ==
    /\ weekStart = 0
    /\ \/ /\ tasks \in Numbered(TaskPool(weekStart), MaxTasks)
          /\ goals \in {WithIds(l) : l \in GoalLists}
          /\ GoalIdsExist(tasks, goals)
          /\ capacity \in CapacityPool
       \/ /\ tasks = QuotaWeekTasks
          /\ goals = QuotaWeekGoals
          /\ capacity = DEFAULT_CAPACITY
    /\ idPool = {0}
    /\ blocks = <<>>
    /\ pc = "pass1"
    /\ i = 1
    /\ di = 1
    /\ scheduledTaskIds = {}
    /\ goalTasks = <<>>
    /\ sessionsPlaced = 0
    /\ output = <<>>
    /\ prevOutput = None
    /\ scheduledBlocks = <<>>
    /\ check = None
    /\ rendered = goals
    /\ SideIdle

(***************************************************************************)
(* The steps of a run.                                                     *)
(***************************************************************************)
\* one iteration of  for (const task of fixedTasks)
Pass1Task ==
    /\ pc = "pass1"
    /\ i <= Len(fixedTasks)
    /\ \E id \in idPool : blocks' = Pass1Place(blocks, fixedTasks[i], id)
    /\ i' = i + 1
    /\ UNCHANGED <<side, inputs, store, pc, di, scheduledTaskIds, goalTasks, sessionsPlaced,
                   output, prevOutput>>

Pass1End ==
    /\ pc = "pass1"
    /\ i > Len(fixedTasks)
    /\ pc' = "pass2"
    /\ i' = 1
    /\ UNCHANGED <<side, inputs, store, blocks, di, scheduledTaskIds, goalTasks, sessionsPlaced,
                   output, prevOutput>>

\* one iteration of  for (const task of deadlineTasks)
Pass2Task ==
    /\ pc = "pass2"
    /\ i <= Len(deadlineTasks)
    /\ \E id \in idPool : blocks' = Pass2Place(blocks, deadlineTasks[i], id)
    /\ i' = i + 1
    /\ UNCHANGED <<side, inputs, store, pc, di, scheduledTaskIds, goalTasks, sessionsPlaced,
                   output, prevOutput>>

\* the end of pass 2 and  const scheduledTaskIds = new Set(blocks.map((b) => b.taskId))
Pass2End ==
    /\ pc = "pass2"
    /\ i > Len(deadlineTasks)
    /\ pc' = "pass3"
    /\ i' = 1
    /\ scheduledTaskIds' = {blocks[k].taskId : k \in 1..Len(blocks)}
    /\ UNCHANGED <<side, inputs, store, blocks, di, goalTasks, sessionsPlaced, output, prevOutput>>

\* the head of one iteration of  for (const goal of activeGoals)
Pass3Goal ==
    /\ pc = "pass3"
    /\ i <= Len(activeGoals)
    /\ IF quotaSessions(activeGoals[i]) <= 0
          THEN /\ i' = i + 1
               /\ UNCHANGED <<pc, di, goalTasks, sessionsPlaced>>
          ELSE /\ goalTasks' = GoalTasksOf(activeGoals[i], scheduledTaskIds)
               /\ sessionsPlaced' = 0
               /\ di' = 1
               /\ pc' = "pass3dates"
               /\ i' = i
    /\ UNCHANGED <<side, inputs, store, blocks, scheduledTaskIds, output, prevOutput>>

\* one iteration of  for (const date of dayDates)  of pass 3
Pass3Date ==
    /\ pc = "pass3dates"
    /\ di <= WindowDays
    /\ sessionsPlaced < quotaSessions(activeGoals[i])
    /\ LET date == dayDates[di]
           task == Pass3Task(blocks, goalTasks, date)
       IN  IF IsSet(task)
              THEN /\ \E id \in idPool :
                        blocks' = Append(blocks, StackedBlock(blocks, Val(task), date, id, 3))
                   /\ scheduledTaskIds' = scheduledTaskIds \cup {Val(task).id}
                   /\ sessionsPlaced' = sessionsPlaced + 1
              ELSE UNCHANGED <<blocks, scheduledTaskIds, sessionsPlaced>>
    /\ di' = di + 1
    /\ UNCHANGED <<side, inputs, store, pc, i, goalTasks, output, prevOutput>>

\* the date loop of pass 3 ends: dates exhausted, or the break on the quota
Pass3GoalEnd ==
    /\ pc = "pass3dates"
    /\ (di > WindowDays \/ sessionsPlaced >= quotaSessions(activeGoals[i]))
    /\ pc' = "pass3"
    /\ i' = i + 1
    /\ UNCHANGED <<side, inputs, store, blocks, di, scheduledTaskIds, goalTasks, sessionsPlaced,
                   output, prevOutput>>

Pass3End ==
    /\ pc = "pass3"
    /\ i > Len(activeGoals)
    /\ pc' = "pass4"
    /\ di' = 1
    /\ UNCHANGED <<side, inputs, store, blocks, i, scheduledTaskIds, goalTasks, sessionsPlaced,
                   output, prevOutput>>

\* one iteration of  for (const date of dayDates)  of pass 4; after the last one
\* the call returns blocks.sort(...)
Pass4Date ==
    /\ pc = "pass4"
    /\ di <= WindowDays
    /\ \E id \in idPool : blocks' = Pass4Place(blocks, dayDates[di], id)
    /\ di' = di + 1
    /\ IF di = WindowDays
          THEN /\ output' = SortBlocks(blocks')
               /\ pc' = "done"
          ELSE UNCHANGED <<output, pc>>
    /\ UNCHANGED <<side, inputs, store, i, scheduledTaskIds, goalTasks, sessionsPlaced, prevOutput>>

Next ==
    \/ Pass1Task
    \/ Pass1End
    \/ Pass2Task
    \/ Pass2End
    \/ Pass3Goal
    \/ Pass3Date
    \/ Pass3GoalEnd
    \/ Pass3End
    \/ Pass4Date

Spec == Init /\ [][Next]_vars

(***************************************************************************)
(* Two runs on one store.  handleGenerate calls runWeeklyScheduler(state,   *)
(* weekStart) each time the user generates the week; prevOutput keeps the   *)
(* tuples (date, taskId, startTime, endTime, sortOrder) the first call      *)
(* returned.  Between the two calls the store is left as it is (RunAgain),  *)
(* or setTasks drops the goal tasks (RunAgainWithoutGoalTasks).  blockId()  *)
(* draws each id from idPool.                                               *)
(***************************************************************************)
Tuples(out) ==
    [k \in 1..Len(out) |->
        <<out[k].date, out[k].taskId, out[k].startTime, out[k].endTime, out[k].sortOrder>>]

Restart(kind) ==
    /\ pc = "done"
    /\ prevOutput = None
    /\ prevOutput' = Some([kind |-> kind, tuples |-> Tuples(output)])
    /\ blocks' = <<>>
    /\ pc' = "pass1"
    /\ i' = 1
    /\ di' = 1
    /\ scheduledTaskIds' = {}
    /\ goalTasks' = <<>>
    /\ sessionsPlaced' = 0
    /\ output' = <<>>

RunAgain ==
    /\ Restart("same")
    /\ UNCHANGED <<side, inputs, store>>

RunAgainWithoutGoalTasks ==
    /\ Restart("withoutGoalTasks")
    /\ tasks' = SelectSeq(tasks, LAMBDA t : t.taskType # "GoalTask")
    /\ UNCHANGED <<side, goals, capacity, weekStart, idPool, store>>

RerunTaskPool(ws) ==
    { Task("FixedEvent", None, 30, "Deep", Some(ws), Some(<<9, 30>>), FALSE),
      Task("FixedEvent", None, 20, "Light", None, None, FALSE),
      Task("DeadlineTask", None, 30, "Light", Some(ws), None, FALSE),
      Task("GoalTask", Some(1), 30, "Deep", None, None, FALSE),
      Task("GoalTask", Some(1), 15, "Light", None, None, FALSE),
      Task("MicroTask", None, 10, "Deep", None, None, FALSE) }

\* a fixed event of 20 minutes on every date of the window, and one goal task
SaturatedWeek(ws) ==
    [k \in 1..(WindowDays + 1) |->
        IF k <= WindowDays
           THEN [Task("FixedEvent", None, 20, "Light", Some(ws + (k - 1)), None, FALSE)
                    EXCEPT !.id = k]
           ELSE [Task("GoalTask", Some(1), 15, "Light", None, None, FALSE)
                    EXCEPT !.id = k]]

RerunGoalLists ==
    { <<Goal(1, TRUE, Some(2), None)>>,
      <<Goal(1, TRUE, Some(1), None), Goal(2, TRUE, Some(1), None)>> }

RerunCapacityPool ==
    { Capacity(1, 1, 25, <<9, 0>>, <<17, 0>>),
      Capacity(2, 2, 25, <<9, 0>>, <<17, 0>>) }

InitRerun ==
    /\ weekStart = 0
    /\ tasks \in Numbered(RerunTaskPool(weekStart), MaxTasks) \cup {SaturatedWeek(weekStart)}
    /\ goals \in {WithIds(l) : l \in RerunGoalLists}
    /\ GoalIdsExist(tasks, goals)
    /\ capacity \in RerunCapacityPool
    /\ idPool = {0, 1}
    /\ blocks = <<>>
    /\ pc = "pass1"
    /\ i = 1
    /\ di = 1
    /\ scheduledTaskIds = {}
    /\ goalTasks = <<>>
    /\ sessionsPlaced = 0
    /\ output = <<>>
    /\ prevOutput = None
    /\ scheduledBlocks = <<>>
    /\ check = None
    /\ rendered = goals
    /\ SideIdle

NextRerun ==
    \/ Next
    \/ RunAgain
    \/ RunAgainWithoutGoalTasks

SpecRerun == InitRerun /\ [][NextRerun]_vars

(***************************************************************************)
(* The stored schedule.  When the run it called has returned,               *)
(* handleGenerate hands the returned array to onReplaceBlocks, which stores *)
(* it (StoreBlocks).  The Today view then changes the status of a block of  *)
(* today (Start, Skip, Complete call updateBlock with the id of the block), *)
(* the capacity evaluator answers for a candidate block of today against    *)
(* the stored blocks, and the user may generate the week again              *)
(* (GenerateAgain); prevOutput then also keeps the statuses of the blocks    *)
(* stored when the second run began.  No handler runs while handleGenerate  *)
(* is under way.                                                            *)
(***************************************************************************)
today == weekStart

\* onReplaceBlocks(newBlocks), the statement of handleGenerate after the run
StoreBlocks ==
    /\ pc = "done"
    /\ scheduledBlocks' = ReplaceBlocks(scheduledBlocks, output)
    /\ pc' = "stored"
    /\ UNCHANGED <<side, inputs, blocks, i, di, scheduledTaskIds, goalTasks, sessionsPlaced,
                   output, prevOutput, check, rendered>>

\* handleGenerate once more, on the store as it is
GenerateAgain ==
    /\ pc = "stored"
    /\ prevOutput = None
    /\ prevOutput' = Some([kind |-> "same", tuples |-> Tuples(output),
                           statuses |-> [k \in 1..Len(scheduledBlocks) |->
                                            scheduledBlocks[k].status]])
    /\ blocks' = <<>>
    /\ pc' = "pass1"
    /\ i' = 1
    /\ di' = 1
    /\ scheduledTaskIds' = {}
    /\ goalTasks' = <<>>
    /\ sessionsPlaced' = 0
    /\ output' = <<>>
    /\ UNCHANGED <<side, inputs, store>>

\* the minutes of the candidates put to the evaluator
CandidateMins == {25, 30}

\* updateBlock(id, { status }):
\* state.scheduledBlocks.map((b) => (b.id === id ? { ...b, ...patch } : b))
updateBlock(bs, id, status) ==
    [k \in 1..Len(bs) |-> IF bs[k].id = id THEN [bs[k] EXCEPT !.status = status]
                                           ELSE bs[k]]

\* the statuses the buttons of a block of the Today view pass to onBlockStatus
StatusButtons(b) ==
    IF b.status = "pending" THEN {"in_progress", "skipped"}
    ELSE IF b.status = "in_progress" THEN {"completed"}
    ELSE {}

UpdateBlockStatus ==
    /\ pc = "stored"
    /\ \E k \in 1..Len(scheduledBlocks) :
          /\ scheduledBlocks[k].date = today
          /\ \E status \in StatusButtons(scheduledBlocks[k]) :
                scheduledBlocks' = updateBlock(scheduledBlocks, scheduledBlocks[k].id, status)
    /\ UNCHANGED <<side, inputs, blocks, pc, i, di, scheduledTaskIds, goalTasks, sessionsPlaced,
                   output, prevOutput, check, rendered>>

\* a call of wouldExceedDailyLimits for a candidate of today on the stored blocks
CheckCandidate ==
    /\ pc = "stored"
    /\ \E m \in CandidateMins, e \in {"Deep", "Light"} :
          check' = Some([date |-> today, newBlockMinutes |-> m, energyType |-> e,
                         result |-> wouldExceedDailyLimits(capacity, scheduledBlocks,
                                                           today, m, e)])
    /\ UNCHANGED <<side, inputs, blocks, pc, i, di, scheduledTaskIds, goalTasks, sessionsPlaced,
                   output, prevOutput, scheduledBlocks, rendered>>

CapacityTaskPool(ws) ==
    { Task("FixedEvent", None, 30, "Deep", Some(ws), Some(<<9, 30>>), FALSE),
      Task("FixedEvent", None, 20, "Light", None, None, FALSE),
      Task("DeadlineTask", None, 30, "Light", Some(ws), None, FALSE),
      Task("GoalTask", Some(1), 30, "Deep", None, None, FALSE) }

CapacityGoalLists ==
    { <<>>,
      <<Goal(1, TRUE, Some(1), None)>> }

CapacityCapacityPool ==
    { Capacity(1, 1, 25, <<9, 0>>, <<17, 0>>),
      Capacity(2, 1, 25, <<9, 0>>, <<17, 0>>) }

InitCapacity ==
    /\ weekStart = 0
    /\ tasks \in Numbered(CapacityTaskPool(weekStart), MaxTasks)
    /\ goals \in {WithIds(l) : l \in CapacityGoalLists}
    /\ GoalIdsExist(tasks, goals)
    /\ capacity \in CapacityCapacityPool
    /\ idPool = {0, 1}
    /\ blocks = <<>>
    /\ pc = "pass1"
    /\ i = 1
    /\ di = 1
    /\ scheduledTaskIds = {}
    /\ goalTasks = <<>>
    /\ sessionsPlaced = 0
    /\ output = <<>>
    /\ prevOutput = None
    /\ scheduledBlocks = <<>>
    /\ check = None
    /\ rendered = goals
    /\ SideIdle

NextCapacity ==
    \/ Next
    \/ StoreBlocks
    \/ UpdateBlockStatus
    \/ CheckCandidate

SpecCapacity == InitCapacity /\ [][NextCapacity]_vars

(***************************************************************************)
(* Generating the week again on a store whose blocks have changed status.   *)
(***************************************************************************)
StoreTaskPool(ws) ==
    { Task("FixedEvent", None, 20, "Light", None, None, FALSE),
      Task("DeadlineTask", None, 30, "Light", Some(ws), None, FALSE),
      Task("GoalTask", Some(1), 30, "Deep", None, None, FALSE) }

InitStore ==
    /\ weekStart = 0
    /\ tasks \in Numbered(StoreTaskPool(weekStart), MaxTasks)
    /\ goals = WithIds(<<Goal(1, TRUE, Some(1), None)>>)
    /\ capacity = Capacity(2, 1, 25, <<9, 0>>, <<17, 0>>)
    /\ idPool = {0, 1}
    /\ blocks = <<>>
    /\ pc = "pass1"
    /\ i = 1
    /\ di = 1
    /\ scheduledTaskIds = {}
    /\ goalTasks = <<>>
    /\ sessionsPlaced = 0
    /\ output = <<>>
    /\ prevOutput = None
    /\ scheduledBlocks = <<>>
    /\ check = None
    /\ rendered = goals
    /\ SideIdle

NextStore ==
    \/ Next
    \/ StoreBlocks
    \/ UpdateBlockStatus
    \/ GenerateAgain

SpecStore == InitStore /\ [][NextStore]_vars

(***************************************************************************)
(* Two runs, the second on a store from which setGoals and setTasks have    *)
(* dropped the goals of a tier number above cutoff and the tasks linked to  *)
(* them.                                                                    *)
(***************************************************************************)
RunAgainWithoutLargerTiers ==
    /\ Restart("withoutLargerTiers")
    /\ \E cutoff \in {1, 2} :
          LET kept == SelectSeq(goals, LAMBDA g : g.priorityTier <= cutoff)
              keptIds == {kept[k].id : k \in 1..Len(kept)}
          IN  /\ goals' = kept
              /\ rendered' = kept
              /\ tasks' = SelectSeq(tasks, LAMBDA t : t.goalId \subseteq keptIds)
    /\ UNCHANGED <<side, capacity, weekStart, idPool, scheduledBlocks, check>>

TierTaskPool(ws) ==
    { Task("FixedEvent", None, 20, "Light", None, None, FALSE),
      Task("DeadlineTask", None, 30, "Light", Some(ws), None, FALSE),
      Task("GoalTask", Some(1), 30, "Deep", None, None, FALSE),
      Task("GoalTask", Some(2), 30, "Deep", None, None, FALSE),
      Task("GoalTask", Some(2), 40, "Light", None, None, FALSE) }

TierGoalLists ==
    { <<Goal(2, TRUE, Some(2), None), Goal(1, TRUE, Some(2), None)>>,
      <<Goal(1, TRUE, Some(1), None), Goal(2, TRUE, Some(2), None)>>,
      <<Goal(3, TRUE, Some(1), None), Goal(2, TRUE, Some(1), None)>>,
      <<Goal(1, TRUE, Some(1), None), Goal(1, TRUE, Some(1), None)>> }

TierCapacityPool ==
    { Capacity(1, 1, 25, <<9, 0>>, <<17, 0>>),
      Capacity(2, 2, 25, <<9, 0>>, <<17, 0>>) }

InitTiers ==
    /\ weekStart = 0
    /\ tasks \in Numbered(TierTaskPool(weekStart), MaxTasks)
    /\ goals \in {WithIds(l) : l \in TierGoalLists}
    /\ GoalIdsExist(tasks, goals)
    /\ capacity \in TierCapacityPool
    /\ idPool = {0}
    /\ blocks = <<>>
    /\ pc = "pass1"
    /\ i = 1
    /\ di = 1
    /\ scheduledTaskIds = {}
    /\ goalTasks = <<>>
    /\ sessionsPlaced = 0
    /\ output = <<>>
    /\ prevOutput = None
    /\ scheduledBlocks = <<>>
    /\ check = None
    /\ rendered = goals
    /\ SideIdle

NextTiers ==
    \/ Next
    \/ RunAgainWithoutLargerTiers

SpecTiers == InitTiers /\ [][NextTiers]_vars

(***************************************************************************)
(* The goals of the store (useGoals).  addGoal and removeGoal compute the   *)
(* new list from the state.goals their render captured and dispatch it;     *)
(* a render then hands the callbacks the list of the store.  Date.now()     *)
(* gives a new goal its id, so two goals may carry the same one.            *)
(***************************************************************************)
MaxGoals == 5

MaxActiveGoals == 3

GoalIdPool == {1, 2}

ActiveCount(gs) == Cardinality({k \in 1..Len(gs) : gs[k].active})

\* addGoal without its test of the number of active goals
addGoalUnchecked(snapshot, current, g, id) ==
    Append(snapshot, [g EXCEPT !.id = id, !.active = TRUE])

\* addGoal(g): the list of the store after the call
addGoal(snapshot, current, g, id) ==
    IF ActiveCount(snapshot) >= MaxActiveGoals THEN current
    ELSE Append(snapshot, [g EXCEPT !.id = id, !.active = TRUE])

\* removeGoal(id): the list the call dispatches
removeGoal(snapshot, id) ==
    [k \in 1..Len(snapshot) |->
        IF snapshot[k].id = id THEN [snapshot[k] EXCEPT !.active = FALSE]
                               ELSE snapshot[k]]

AddGoal ==
    /\ pc = "idle"
    /\ Len(rendered) < MaxGoals
    /\ \E id \in GoalIdPool :
          goals' = addGoal(rendered, goals, Goal(1, TRUE, Some(1), None), id)
    /\ UNCHANGED <<side, tasks, capacity, weekStart, idPool, blocks, pc, i, di,
                   scheduledTaskIds, goalTasks, sessionsPlaced, output, prevOutput,
                   store>>

RemoveGoal ==
    /\ pc = "idle"
    /\ \E id \in GoalIdPool : goals' = removeGoal(rendered, id)
    /\ UNCHANGED <<side, tasks, capacity, weekStart, idPool, blocks, pc, i, di,
                   scheduledTaskIds, goalTasks, sessionsPlaced, output, prevOutput,
                   store>>

\* the component renders again: the callbacks capture the list of the store
Render ==
    /\ pc = "idle"
    /\ rendered # goals
    /\ rendered' = goals
    /\ UNCHANGED <<side, inputs, blocks, pc, i, di, scheduledTaskIds, goalTasks,
                   sessionsPlaced, output, prevOutput, scheduledBlocks, check>>

\* stores with at most 3 active goals
GoalStores ==
    { <<>>,
      <<Goal(1, TRUE, Some(1), None), Goal(2, TRUE, Some(1), None),
        Goal(3, TRUE, None, Some(<<3, 2>>))>>,
      <<Goal(1, FALSE, Some(1), None), Goal(1, TRUE, Some(1), None)>> }

InitGoals ==
    /\ weekStart = 0
    /\ tasks = <<>>
    /\ goals \in {WithIds(l) : l \in GoalStores}
    /\ capacity = DEFAULT_CAPACITY
    /\ idPool = {0}
    /\ blocks = <<>>
    /\ pc = "idle"
    /\ i = 1
    /\ di = 1
    /\ scheduledTaskIds = {}
    /\ goalTasks = <<>>
    /\ sessionsPlaced = 0
    /\ output = <<>>
    /\ prevOutput = None
    /\ scheduledBlocks = <<>>
    /\ check = None
    /\ rendered = goals
    /\ SideIdle

NextGoals ==
    \/ AddGoal
    \/ RemoveGoal
    \/ Render

SpecGoals == InitGoals /\ [][NextGoals]_vars

(***************************************************************************)
(* Runs on inputs with a string the code does not read as a time or a date. *)
(* toDateStr(addDays(new Date(weekStart), i)) throws a RangeError for an    *)
(* Invalid Date, so a run on such a weekStart ends in its setup; nothing     *)
(* else in the code tests a string before it computes with it.               *)
(***************************************************************************)
\* "9am", "soon", "": a clock string neither of whose fields is a number
BadTime == <<NaN, NaN>>

MalformedTaskPool(ws) ==
    { Task("FixedEvent", None, 20, "Light", None, None, FALSE),
      Task("FixedEvent", None, 30, "Deep", Some(ws), Some(BadTime), FALSE),
      Task("DeadlineTask", None, 30, "Light", Some(ws), None, FALSE),
      Task("GoalTask", Some(1), 30, "Deep", None, None, FALSE),
      Task("MicroTask", None, 10, "Light", None, None, FALSE) }

MalformedGoalLists ==
    { <<>>,
      <<Goal(1, TRUE, Some(2), None)>> }

MalformedCapacityPool ==
    { Capacity(2, 1, 25, <<9, 0>>, <<17, 0>>),
      Capacity(2, 1, 25, BadTime, <<17, 0>>),
      Capacity(2, 1, 25, <<9, 0>>, BadTime) }

InitMalformed ==
    /\ weekStart \in {0, NaN}
    /\ tasks \in Numbered(MalformedTaskPool(0), MaxTasks)
    /\ goals \in {WithIds(l) : l \in MalformedGoalLists}
    /\ GoalIdsExist(tasks, goals)
    /\ capacity \in MalformedCapacityPool
    /\ idPool = {0}
    /\ blocks = <<>>
    /\ pc = IF IsNaN(weekStart) THEN "threw" ELSE "pass1"
    /\ i = 1
    /\ di = 1
    /\ scheduledTaskIds = {}
    /\ goalTasks = <<>>
    /\ sessionsPlaced = 0
    /\ output = <<>>
    /\ prevOutput = None
    /\ scheduledBlocks = <<>>
    /\ check = None
    /\ rendered = goals
    /\ SideIdle

SpecMalformed == InitMalformed /\ [][Next]_vars

(***************************************************************************)
(* Properties of the schedule a run returns.                               *)
(***************************************************************************)
Done == pc = "done"

StartMins(b) == timeToMinutes(b.startTime)
EndMins(b) == timeToMinutes(b.endTime)
DurationMins(b) == EndMins(b) - StartMins(b)

TaskOf(b) == CHOOSE t \in {tasks[k] : k \in 1..Len(tasks)} : t.id = b.taskId

MaxMins == capacity.maxPlannedHoursPerDay * 60

WindowDates == {dayDates[k] : k \in 1..WindowDays}

\* C1: in the returned schedule no two pending or in-progress blocks of one date
\* intersect as [startTime, endTime) intervals.
C1_NoOverlap ==
    Done =>
        \A k, j \in 1..Len(output) :
            (/\ k < j
             /\ output[k].date = output[j].date
             /\ Pending(output[k])
             /\ Pending(output[j]))
            => ~(/\ StartMins(output[k]) < EndMins(output[j])
                 /\ StartMins(output[j]) < EndMins(output[k]))

\* C2: in the returned schedule the planned minutes of every window date, buffer
\* included, are at most maxPlannedHoursPerDay * 60.
C2_PlannedWithinCap ==
    Done => \A date \in WindowDates : getPlannedMinutesForDay(output, date) <= MaxMins

\* C3: in the returned schedule the Deep pending or in-progress blocks of every
\* window date number at most maxDeepBlocksPerDay.
C3_DeepWithinCap ==
    Done => \A date \in WindowDates :
                getDeepBlockCountForDay(output, date) <= capacity.maxDeepBlocksPerDay

\* C4: no two blocks of the returned schedule carry the same taskId.
C4_TaskScheduledOnce ==
    Done => \A k, j \in 1..Len(output) : k # j => output[k].taskId # output[j].taskId

\* C5: a block of passes 1-3 lasts ceil(E * (1 + P/100)) minutes, E the estimate of
\* its task and P the buffer percent; a block of pass 4 lasts 20 minutes.
C5_BufferedDuration ==
    Done => \A k \in 1..Len(output) :
                LET b == output[k]
                    E == TaskOf(b).estimatedMinutes
                IN  IF b.sortOrder = 4
                       THEN DurationMins(b) = 20
                       ELSE DurationMins(b) = CeilDiv(E * (100 + capacity.bufferPercent), 100)

TaskSet == {tasks[k] : k \in 1..Len(tasks)}

BlocksOfTask(bs, t) == {k \in 1..Len(bs) : bs[k].taskId = t.id}

\* C7: no block, in the list a run builds or in the schedule it returns, refers to
\* a completed task.
C7_NoCompletedTask ==
    /\ \A k \in 1..Len(blocks) : ~TaskOf(blocks[k]).completed
    /\ \A k \in 1..Len(output) : ~TaskOf(output[k]).completed

\* a run has returned blocks for a list that holds a completed fixed event, a
\* completed goal task or a completed micro task
C7_Witness ==
    /\ Done
    /\ Len(output) > 0
    /\ \E t \in TaskSet :
          t.completed /\ t.taskType \in {"FixedEvent", "DeadlineTask", "GoalTask", "MicroTask"}

\* C8 as stated: every non-completed FixedEvent, or DeadlineTask with a dueTime,
\* has exactly one sortOrder-1 block, dated its deadline (else the first day of the
\* window) and starting at its dueTime (else workStart).
C8_FixedAlwaysPlaced ==
    Done =>
        \A t \in TaskSet :
            IsFixedTask(t) =>
                /\ Cardinality({k \in BlocksOfTask(output, t) : output[k].sortOrder = 1}) = 1
                /\ \A k \in BlocksOfTask(output, t) :
                      output[k].sortOrder = 1 =>
                          /\ output[k].date = FixedDate(t)
                          /\ output[k].startTime = FixedStart(t)

\* C8 amended: the same for the tasks whose date is a date of the window, whatever
\* the planned minutes and deep-block count of the day; a task dated outside the
\* window gets no block.
C8_FixedPlacedInWindow ==
    Done =>
        \A t \in TaskSet :
            IsFixedTask(t) =>
                IF InWindow(FixedDate(t))
                   THEN /\ Cardinality({k \in BlocksOfTask(output, t) :
                                           output[k].sortOrder = 1}) = 1
                        /\ \A k \in BlocksOfTask(output, t) :
                              output[k].sortOrder = 1 =>
                                  /\ output[k].date = FixedDate(t)
                                  /\ output[k].startTime = FixedStart(t)
                   ELSE BlocksOfTask(output, t) = {}

\* pass 1 has placed two fixed tasks on a date whose deep-block count is then over
\* maxDeepBlocksPerDay and whose planned minutes are over the daily cap
C8_Witness ==
    /\ Done
    /\ \E date \in WindowDates :
          LET fixed == SelectSeq(output, LAMBDA b : b.sortOrder = 1 /\ b.date = date)
          IN  /\ Len(fixed) >= 2
              /\ getDeepBlockCountForDay(fixed, date) > capacity.maxDeepBlocksPerDay
              /\ getPlannedMinutesForDay(fixed, date) > MaxMins

\* C10: pass 2 places a DeadlineTask without dueTime whose deadline is in the
\* window, on its deadline date with sortOrder 2, exactly when
\* wouldExceedDailyLimits is ok against the blocks placed so far; otherwise the
\* list is left as it is, and no later step adds or removes a block of such a task,
\* so a rejected task is absent from the returned schedule.
C10_DeadlinePlacedIffOk ==
    [][ /\ (pc = "pass2" /\ i <= Len(deadlineTasks)
              /\ InWindow(Val(deadlineTasks[i].deadline)))
           => LET t == deadlineTasks[i]
                  date == Val(t.deadline)
              IN  IF LimitsOk(blocks, t, date)
                     THEN /\ Len(blocks') = Len(blocks) + 1
                          /\ SubSeq(blocks', 1, Len(blocks)) = blocks
                          /\ blocks'[Len(blocks')].taskId = t.id
                          /\ blocks'[Len(blocks')].date = date
                          /\ blocks'[Len(blocks')].sortOrder = 2
                     ELSE blocks' = blocks
        /\ (pc \notin {"pass1", "pass2"})
           => \A k \in 1..Len(deadlineTasks) :
                 /\ Cardinality(BlocksOfTask(blocks', deadlineTasks[k]))
                      = Cardinality(BlocksOfTask(blocks, deadlineTasks[k]))
                 /\ pc' = "done"
                    => Cardinality(BlocksOfTask(output', deadlineTasks[k]))
                         = Cardinality(BlocksOfTask(blocks, deadlineTasks[k]))
      ]_vars

\* a run has returned: a deadline task of the window was rejected by the check and
\* has no block, and another deadline task has its sortOrder-2 block
C10_Witness ==
    /\ Done
    /\ \E t, u \in TaskSet :
          /\ IsDeadlineTask(t) /\ InWindow(Val(t.deadline))
          /\ BlocksOfTask(output, t) = {}
          /\ IsDeadlineTask(u) /\ InWindow(Val(u.deadline))
          /\ \E k \in BlocksOfTask(output, u) :
                output[k].sortOrder = 2 /\ output[k].date = Val(u.deadline)

\* C11: with the default capacity, one active tier-1 goal of 5 weekly sessions and
\* 5 linked Deep goal tasks of 60 minutes, the run returns exactly 5 blocks, each
\* of 75 minutes, on 5 distinct dates of the window, one block per linked task.
C11_FiveSessionsFiveTasks ==
    (/\ Done
     /\ tasks = QuotaWeekTasks
     /\ goals = QuotaWeekGoals
     /\ capacity = DEFAULT_CAPACITY)
    => /\ Len(output) = 5
       /\ \A k \in 1..Len(output) :
             /\ DurationMins(output[k]) = 75
             /\ output[k].date \in WindowDates
       /\ \A k, j \in 1..Len(output) : k # j => output[k].date # output[j].date
       /\ \A t \in TaskSet : Cardinality(BlocksOfTask(output, t)) = 1

\* C12: wouldExceedDailyLimits answers ok = false exactly when the planned minutes
\* of the date plus the candidate's minutes exceed maxPlannedHoursPerDay * 60, or
\* the candidate is Deep and the date's deep-block count has reached
\* maxDeepBlocksPerDay; the reason is the total-time one whenever the time check
\* fails, the deep-block one when only the deep check fails, and absent when ok.
C12_LimitsDecision ==
    [][ check' # check =>
          LET c == Val(check')
              overTime == getPlannedMinutesForDay(scheduledBlocks, c.date)
                              + c.newBlockMinutes > capacity.maxPlannedHoursPerDay * 60
              overDeep == /\ c.energyType = "Deep"
                          /\ getDeepBlockCountForDay(scheduledBlocks, c.date)
                                >= capacity.maxDeepBlocksPerDay
          IN  /\ c.result.ok = ~(overTime \/ overDeep)
              /\ c.result.ok => c.result.reason = None
              /\ overTime => c.result.reason = Some(TimeReason(capacity))
              /\ (~overTime /\ overDeep) => c.result.reason = Some(DeepReason(capacity))
      ]_vars

\* the evaluator has answered for a Deep candidate that fails both checks on the
\* stored blocks, with the total-time reason
C12_Witness ==
    /\ IsSet(check)
    /\ LET c == Val(check)
       IN  /\ c.energyType = "Deep"
           /\ getPlannedMinutesForDay(scheduledBlocks, c.date) + c.newBlockMinutes > MaxMins
           /\ getDeepBlockCountForDay(scheduledBlocks, c.date) >= capacity.maxDeepBlocksPerDay
           /\ c.result = [ok |-> FALSE, reason |-> Some(TimeReason(capacity))]

RECURSIVE SumSizes(_, _)
SumSizes(bs, S) ==
    IF S = {} THEN 0
    ELSE LET k == CHOOSE j \in S : TRUE
         IN  DurationMins(bs[k]) + bs[k].bufferMinutes + SumSizes(bs, S \ {k})

\* C13: a status change of stored blocks lowers the planned minutes of each date by
\* (end - start) + bufferMinutes of every block of that date it moves from pending
\* or in_progress to completed or skipped, lowers the deep-block count by the
\* number of Deep ones among them, and changes neither otherwise.
C13_ClosedBlocksNotCounted ==
    [][ (pc = "stored" /\ pc' = "stored" /\ scheduledBlocks' # scheduledBlocks) =>
          \A date \in WindowDates :
             LET moved == {k \in 1..Len(scheduledBlocks) :
                             /\ scheduledBlocks[k].date = date
                             /\ scheduledBlocks[k].status \in {"pending", "in_progress"}
                             /\ scheduledBlocks'[k].status \in {"completed", "skipped"}}
                 deep == {k \in moved : scheduledBlocks[k].energyType = "Deep"}
             IN  /\ getPlannedMinutesForDay(scheduledBlocks', date)
                      = getPlannedMinutesForDay(scheduledBlocks, date)
                          - SumSizes(scheduledBlocks, moved)
                 /\ getDeepBlockCountForDay(scheduledBlocks', date)
                      = getDeepBlockCountForDay(scheduledBlocks, date) - Cardinality(deep)
      ]_vars

\* the evaluator rejected a candidate; one block of today, alone with its id, was
\* then completed or skipped, and the same candidate now passes
C13_Witness ==
    /\ IsSet(check)
    /\ ~Val(check).result.ok
    /\ \E k \in 1..Len(scheduledBlocks) :
          /\ scheduledBlocks[k].date = today
          /\ scheduledBlocks[k].status \in {"completed", "skipped"}
          /\ \A j \in 1..Len(scheduledBlocks) :
                j # k => /\ scheduledBlocks[j].id # scheduledBlocks[k].id
                         /\ scheduledBlocks[j].status = "pending"
    /\ wouldExceedDailyLimits(capacity, scheduledBlocks, Val(check).date,
                              Val(check).newBlockMinutes, Val(check).energyType).ok

\* the sortOrder the claim gives the block of a task, by the kind of its placement
SortOrderOfKind(t) ==
    IF t.taskType = "FixedEvent" \/ (t.taskType = "DeadlineTask" /\ IsSet(t.dueTime))
       THEN 1
    ELSE IF t.taskType = "DeadlineTask" THEN 2
    ELSE IF t.taskType = "GoalTask" THEN 3
    ELSE 4

\* C14: the returned sequence is sorted by date ascending and, within a date, by
\* sortOrder ascending; every block is pending and has sortOrder 1 if it places a
\* fixed task, 2 a deadline task, 3 a goal task, 4 a micro task.
C14_SortedAndTagged ==
    Done =>
        /\ \A k \in 1..(Len(output) - 1) :
              \/ output[k].date < output[k + 1].date
              \/ /\ output[k].date = output[k + 1].date
                 /\ output[k].sortOrder <= output[k + 1].sortOrder
        /\ \A k \in 1..Len(output) :
              /\ output[k].status = "pending"
              /\ output[k].sortOrder \in 1..4
              /\ output[k].sortOrder = SortOrderOfKind(TaskOf(output[k]))

\* a run has returned a schedule that the passes built in another order, with
\* blocks of two passes on one date and blocks on two dates
C14_Witness ==
    /\ Done
    /\ output # blocks
    /\ \E k, j \in 1..Len(output) :
          output[k].date = output[j].date /\ output[k].sortOrder < output[j].sortOrder
    /\ \E k, j \in 1..Len(output) : output[k].date < output[j].date

\* weekStart, workStart, workEnd or the dueTime of a task is malformed
HasMalformedInput ==
    \/ IsNaN(weekStart)
    \/ IsNaN(timeToMinutes(capacity.workStart))
    \/ IsNaN(timeToMinutes(capacity.workEnd))
    \/ \E k \in 1..Len(tasks) :
          IsSet(tasks[k].dueTime) /\ IsNaN(timeToMinutes(Val(tasks[k].dueTime)))

\* C15: a run on a malformed weekStart, workStart, workEnd or dueTime fails: it
\* never returns, and so hands back no schedule, partial or otherwise.
C15_MalformedInputFails ==
    HasMalformedInput => (~Done /\ output = <<>>)

\* C17: the store never holds more than 3 active goals; a call that changes the
\* list either appends one active goal to a list the callback saw with fewer
\* than 3 active goals, or keeps every goal of the list the callback saw, in
\* place, with active set to false or left as it was.
C17_AtMostThreeActive ==
    /\ [](ActiveCount(goals) <= 3)
    /\ [][ goals' # goals =>
             \/ /\ ActiveCount(rendered) < 3
                /\ Len(goals') = Len(rendered) + 1
                /\ SubSeq(goals', 1, Len(rendered)) = rendered
                /\ goals'[Len(goals')].active
             \/ /\ Len(goals') = Len(rendered)
                /\ \A k \in 1..Len(rendered) :
                      \/ goals'[k] = rendered[k]
                      \/ goals'[k] = [rendered[k] EXCEPT !.active = FALSE]
       ]_vars

\* the store holds 3 active goals and a removed one, still in the list, and
\* the callbacks have seen this list: addGoal was called on it to no effect
C17_Witness ==
    /\ pc = "idle"
    /\ rendered = goals
    /\ ActiveCount(goals) = 3
    /\ Len(goals) - ActiveCount(goals) >= 1
    /\ Len(goals) < MaxGoals

Prev == Val(prevOutput)

SecondRunDone(kind) == Done /\ IsSet(prevOutput) /\ Prev.kind = kind

\* handleGenerate has stored the blocks of its second run
SecondWeekStored == pc = "stored" /\ IsSet(prevOutput)

\* C16: handleGenerate stores exactly the array its run returned, every block of
\* it pending, whatever the store held before; and the second of two runs on
\* unchanged goals, tasks and capacity returns the tuples of the first, whatever
\* the statuses of the blocks stored in between.
C16_ScheduleReplaced ==
    /\ []((IsSet(prevOutput) /\ pc \in {"done", "stored"})
            => Tuples(output) = Prev.tuples)
    /\ [][ (pc = "done" /\ pc' = "stored") =>
             /\ scheduledBlocks' = output
             /\ \A k \in 1..Len(scheduledBlocks') : scheduledBlocks'[k].status = "pending"
       ]_vars

\* the blocks of the second run are stored, on a store that held a completed and
\* a skipped block when the run started
C16_Witness ==
    /\ SecondWeekStored
    /\ scheduledBlocks = output
    /\ Len(output) >= 2
    /\ \E k, j \in 1..Len(Prev.statuses) :
          Prev.statuses[k] = "completed" /\ Prev.statuses[j] = "skipped"

\* C6: two runs on the same goals, tasks, capacity and weekStart return the same
\* sequence of (date, taskId, startTime, endTime, sortOrder) tuples, whatever ids
\* blockId() gives the blocks of either run.
C6_Deterministic ==
    SecondRunDone("same") => Tuples(output) = Prev.tuples

\* the second of two runs on one store has returned at least two blocks, and the
\* ids it drew are not all the same
C6_Witness ==
    /\ SecondRunDone("same")
    /\ Len(output) >= 2
    /\ \E k, j \in 1..Len(output) :
          /\ k < j
          /\ output[k].id > output[j].id
          /\ output[k].date = output[j].date
          /\ output[k].sortOrder = output[j].sortOrder

\* the (date, startTime, endTime) of the blocks of task t among tuples
PlacesOf(tuples, t) ==
    {<<tuples[k][1], tuples[k][3], tuples[k][4]>> :
        k \in {j \in 1..Len(tuples) : tuples[j][2] = t.id}}

IsFixedEvent(t) == ~t.completed /\ t.taskType = "FixedEvent"

\* the blocks passes 1 and 2 placed
FirstPasses(bs) == SelectSeq(bs, LAMBDA b : b.sortOrder <= 2)

\* the fixed events keep, in a run without the goal tasks, the date, startTime and
\* endTime they have in the run with them
FixedUnaffected ==
    SecondRunDone("withoutGoalTasks") =>
        \A t \in TaskSet :
            IsFixedEvent(t) => PlacesOf(Tuples(output), t) = PlacesOf(Prev.tuples, t)

\* C9 as stated: a FixedEvent keeps its date, startTime and endTime whether or not
\* the goal tasks are there, and when the candidate of a tier-1 goal passes the
\* daily limits on the day of a FixedEvent, the returned schedule holds the fixed
\* block and a block of the goal.
C9_FixedAndGoalBothAppear ==
    /\ FixedUnaffected
    /\ (Done /\ prevOutput = None /\ Len(activeGoals) > 0) =>
          LET goal == activeGoals[1]
              linked == GoalTasksOf(goal, {})
              placed == FirstPasses(blocks)
          IN  \A f \in TaskSet :
                 LET date == FixedDate(f)
                     task == PickGoalTask(linked, getDeepBlockCountForDay(placed, date))
                 IN  (/\ IsFixedEvent(f)
                      /\ InWindow(date)
                      /\ goal.priorityTier = 1
                      /\ quotaSessions(goal) > 0
                      /\ IsSet(task)
                      /\ LimitsOk(placed, Val(task), date))
                     => /\ BlocksOfTask(output, f) # {}
                        /\ \E k \in 1..Len(output) :
                              /\ output[k].sortOrder = 3
                              /\ TaskOf(output[k]).goalId = Some(goal.id)

\* on a step of pass 3 for a tier-1 goal, on a date that holds the block of a
\* FixedEvent: a block of the candidate is appended on that date when the date
\* has 30 planned minutes left and the candidate passes the daily limits, and
\* nothing is appended otherwise
GoalStepBesideFixed ==
    (/\ pc = "pass3dates"
     /\ di <= WindowDays
     /\ sessionsPlaced < quotaSessions(activeGoals[i])
     /\ activeGoals[i].priorityTier = 1
     /\ \E k \in 1..Len(blocks) :
           /\ blocks[k].date = dayDates[di]
           /\ blocks[k].sortOrder = 1
           /\ TaskOf(blocks[k]).taskType = "FixedEvent")
    => LET date == dayDates[di]
           task == PickGoalTask(goalTasks, getDeepBlockCountForDay(blocks, date))
       IN  IF /\ MaxMins - getPlannedMinutesForDay(blocks, date) >= 30
              /\ IsSet(task)
              /\ LimitsOk(blocks, Val(task), date)
              THEN /\ Len(blocks') = Len(blocks) + 1
                   /\ SubSeq(blocks', 1, Len(blocks)) = blocks
                   /\ blocks'[Len(blocks')].taskId = Val(task).id
                   /\ blocks'[Len(blocks')].date = date
                   /\ blocks'[Len(blocks')].sortOrder = 3
              ELSE blocks' = blocks

\* C9 amended: a FixedEvent keeps its date, startTime and endTime whether or not
\* the goal tasks are there, and on each date pass 3 visits for a tier-1 goal that
\* holds a FixedEvent block, a goal block is placed beside it exactly when the date
\* has at least 30 planned minutes left and the candidate passes the daily limits.
C9_FixedKeptGoalBesideIt ==
    /\ []FixedUnaffected
    /\ [][GoalStepBesideFixed]_vars

\* a run placed a goal block on the date of a fixed block, and the run without the
\* goal tasks has returned
C9_Witness ==
    /\ SecondRunDone("withoutGoalTasks")
    /\ \E k, j \in 1..Len(Prev.tuples) :
          /\ Prev.tuples[k][1] = Prev.tuples[j][1]
          /\ Prev.tuples[k][5] = 1
          /\ Prev.tuples[j][5] = 3
    /\ \E t \in TaskSet : IsFixedEvent(t) /\ PlacesOf(Tuples(output), t) # {}

\* the goal a goal task is linked to
GoalOf(t) == CHOOSE g \in {goals[k] : k \in 1..Len(goals)} : t.goalId = Some(g.id)

\* C18: among the blocks pass 3 has placed, none of a goal comes after a block of
\* a goal with a larger tier number; and in a second run on the store without the
\* goals above a tier number and without their tasks, every remaining goal task
\* has the date, startTime and endTime it had in the first run.
C18_TierOrder ==
    /\ \A k, j \in 1..Len(blocks) :
          (k < j /\ blocks[k].sortOrder = 3 /\ blocks[j].sortOrder = 3)
          => GoalOf(TaskOf(blocks[k])).priorityTier <= GoalOf(TaskOf(blocks[j])).priorityTier
    /\ SecondRunDone("withoutLargerTiers") =>
          \A t \in TaskSet :
             t.taskType = "GoalTask" => PlacesOf(Tuples(output), t) = PlacesOf(Prev.tuples, t)

\* the second run has returned blocks of a goal, and the first run had also
\* returned a block of a goal task that the second store no longer holds
C18_Witness ==
    /\ SecondRunDone("withoutLargerTiers")
    /\ \E k \in 1..Len(output) : output[k].sortOrder = 3
    /\ \E k \in 1..Len(Prev.tuples) :
          /\ Prev.tuples[k][5] = 3
          /\ \A t \in TaskSet : t.id # Prev.tuples[k][2]

\* the weekly session target the claim gives a goal
SessionTarget(g) ==
    IF IsSet(g.weeklyQuotaSessions) THEN Val(g.weeklyQuotaSessions)
    ELSE IF IsSet(g.weeklyQuotaHours)
         THEN CeilDiv(Val(g.weeklyQuotaHours)[1], Val(g.weeklyQuotaHours)[2])
    ELSE 0

\* the sortOrder-3 blocks of the returned schedule whose task is linked to g
GoalBlocks(g) ==
    {k \in 1..Len(output) :
        output[k].sortOrder = 3 /\ TaskOf(output[k]).goalId = Some(g.id)}

\* C19: in the returned schedule the sortOrder-3 blocks of the tasks linked to a
\* goal number at most its weekly session target (weeklyQuotaSessions, else
\* ceil(weeklyQuotaHours), else 0), and a goal that is inactive or has target 0
\* has none.
C19_QuotaBound ==
    Done =>
        \A n \in 1..Len(goals) :
            LET g == goals[n]
            IN  /\ Cardinality(GoalBlocks(g)) <= SessionTarget(g)
                /\ (~g.active \/ SessionTarget(g) = 0) => GoalBlocks(g) = {}

\* a run has returned: an active goal whose target comes from its weekly hours,
\* rounded up to 2 or more, has exactly that many blocks
C19_Witness ==
    /\ Done
    /\ \E n \in 1..Len(goals) :
          /\ goals[n].active
          /\ ~IsSet(goals[n].weeklyQuotaSessions)
          /\ SessionTarget(goals[n]) >= 2
          /\ Cardinality(GoalBlocks(goals[n])) = SessionTarget(goals[n])

\* C20: on a date pass 3 considers for a goal, a block is placed only for the
\* candidate among the tasks of the goal not yet scheduled (the first Deep one if
\* the deep-block count of the date is below maxDeepBlocksPerDay, else the first
\* one if the count is below the cap, else the first one), and only if
\* wouldExceedDailyLimits is ok for it; otherwise the list is left as it is.
C20_CandidateAmongUnscheduled ==
    [][ (/\ pc = "pass3dates"
         /\ di <= WindowDays
         /\ sessionsPlaced < quotaSessions(activeGoals[i]))
        => LET date == dayDates[di]
               unscheduled == GoalTasksOf(activeGoals[i], scheduledTaskIds)
               candidate == PickGoalTask(unscheduled,
                                         getDeepBlockCountForDay(blocks, date))
           IN  IF IsSet(candidate) /\ LimitsOk(blocks, Val(candidate), date)
                  THEN \/ blocks' = blocks
                       \/ /\ Len(blocks') = Len(blocks) + 1
                          /\ SubSeq(blocks', 1, Len(blocks)) = blocks
                          /\ blocks'[Len(blocks')].taskId = Val(candidate).id
                          /\ blocks'[Len(blocks')].date = date
                  ELSE blocks' = blocks
      ]_vars

(***************************************************************************)
(* Pass 4 and the stacking of blocks in the work window.                   *)
(***************************************************************************)
\* the positions of the sortOrder-4 blocks of bs on date
MicroBlocksOn(bs, date) ==
    {k \in 1..Len(bs) : bs[k].sortOrder = 4 /\ bs[k].date = date}

\* C21: pass 4 places at most one sortOrder-4 block per window date, and only on
\* a date whose planned minutes, when the date is visited, are below
\* maxPlannedHoursPerDay * 60 - 20; the block belongs to a non-completed
\* MicroTask with estimatedMinutes <= 15, lasts exactly 20 minutes, has
\* bufferMinutes 5 and energyType Light whatever the energy of the task; no
\* other pass places a sortOrder-4 block.
C21_OneMicroPerDate ==
    /\ [](\A date \in WindowDates : Cardinality(MicroBlocksOn(blocks, date)) <= 1)
    /\ [](\A k \in 1..Len(blocks) :
             blocks[k].sortOrder = 4 =>
               /\ blocks[k].date \in WindowDates
               /\ TaskOf(blocks[k]).taskType = "MicroTask"
               /\ ~TaskOf(blocks[k]).completed
               /\ TaskOf(blocks[k]).estimatedMinutes <= 15
               /\ DurationMins(blocks[k]) = 20
               /\ blocks[k].bufferMinutes = 5
               /\ blocks[k].energyType = "Light")
    /\ [][ IF pc = "pass4" /\ pc' \in {"pass4", "done"}
             THEN \/ blocks' = blocks
                  \/ /\ Len(blocks') = Len(blocks) + 1
                     /\ SubSeq(blocks', 1, Len(blocks)) = blocks
                     /\ blocks'[Len(blocks')].sortOrder = 4
                     /\ blocks'[Len(blocks')].date = dayDates[di]
                     /\ getPlannedMinutesForDay(blocks, dayDates[di]) < MaxMins - 20
             ELSE \A date \in WindowDates :
                     Cardinality(MicroBlocksOn(blocks', date))
                       <= Cardinality(MicroBlocksOn(blocks, date))
       ]_vars

\* the run has returned: a micro task whose own energy is Deep has a block on
\* one date, and another date, whose planned minutes were too many, has none
C21_Witness ==
    /\ Done
    /\ \E k \in 1..Len(output) :
          /\ output[k].sortOrder = 4
          /\ TaskOf(output[k]).energyType = "Deep"
    /\ \E date \in WindowDates :
          /\ MicroBlocksOn(output, date) = {}
          /\ getPlannedMinutesForDay(output, date) >= MaxMins - 20

(***************************************************************************)
(* Runs on short work windows: a window shorter than a block, a window of  *)
(* one hour, a window that ends a minute before midnight, a window that    *)
(* starts ten minutes after midnight, a window whose workEnd is earlier    *)
(* than its workStart, and a day of four deadline tasks stacked in the     *)
(* last hour before midnight.  Estimates are positive, as the task form    *)
(* gives them.                                                             *)
(***************************************************************************)
WindowTaskPool(ws) ==
    { Task("FixedEvent", None, 30, "Light", Some(ws), None, FALSE),
      Task("DeadlineTask", None, 30, "Light", Some(ws), None, FALSE),
      Task("DeadlineTask", None, 40, "Deep", Some(ws), None, FALSE),
      Task("GoalTask", Some(1), 30, "Deep", None, None, FALSE),
      Task("MicroTask", None, 10, "Light", None, None, FALSE) }

WindowGoalLists ==
    { <<>>,
      <<Goal(1, TRUE, Some(2), None)>> }

WindowCapacityPool ==
    { Capacity(2, 2, 25, <<9, 0>>, <<9, 30>>),
      Capacity(3, 2, 25, <<9, 0>>, <<10, 0>>),
      Capacity(12, 3, 25, <<23, 0>>, <<23, 59>>),
      Capacity(2, 2, 25, <<0, 10>>, <<0, 30>>),
      Capacity(2, 2, 25, <<22, 0>>, <<6, 0>>) }

\* four deadline tasks of 30 minutes due on the first date of the window
StackedDay(ws) ==
    [k \in 1..4 |->
        [Task("DeadlineTask", None, 30, "Light", Some(ws), None, FALSE) EXCEPT !.id = k]]

InitWindow ==
    /\ weekStart = 0
    /\ \/ /\ tasks \in Numbered(WindowTaskPool(weekStart), MaxTasks)
          /\ goals \in {WithIds(l) : l \in WindowGoalLists}
          /\ GoalIdsExist(tasks, goals)
          /\ capacity \in WindowCapacityPool
       \/ /\ tasks = StackedDay(weekStart)
          /\ goals = <<>>
          /\ capacity = Capacity(12, 3, 25, <<23, 0>>, <<23, 59>>)
    /\ idPool = {0}
    /\ blocks = <<>>
    /\ pc = "pass1"
    /\ i = 1
    /\ di = 1
    /\ scheduledTaskIds = {}
    /\ goalTasks = <<>>
    /\ sessionsPlaced = 0
    /\ output = <<>>
    /\ prevOutput = None
    /\ scheduledBlocks = <<>>
    /\ check = None
    /\ rendered = goals
    /\ SideIdle

SpecWindow == InitWindow /\ [][Next]_vars

\* the minutes between startTime and endTime that the pass gives a block of task
PlacedMins(b) ==
    IF b.sortOrder = 4 THEN MicroTotalMins
    ELSE BufferedMins(TaskOf(b).estimatedMinutes)
           + BufferMins(TaskOf(b).estimatedMinutes, capacity)

\* C22: every block placed by passes 2, 3 and 4 ends at or before
\* capacity.workEnd: its end is workStart + min(planned minutes of the day,
\* (workEnd - workStart) - duration) + duration, however many blocks are
\* already stacked on the day.
C22_EndsByWorkEnd ==
    /\ [](\A k \in 1..Len(blocks) :
             blocks[k].sortOrder \in {2, 3, 4} => EndMins(blocks[k]) <= workEndMins)
    /\ [][ (Len(blocks') = Len(blocks) + 1 /\ blocks'[Len(blocks')].sortOrder \in {2, 3, 4})
            => LET b == blocks'[Len(blocks')]
                   planned == getPlannedMinutesForDay(blocks, b.date)
                   room == (workEndMins - workStartMins) - PlacedMins(b)
               IN  EndMins(b) = workStartMins
                                  + (IF planned <= room THEN planned ELSE room)
                                  + PlacedMins(b)
       ]_vars

\* three blocks of passes 2 to 4 lie on one date, and the two placed last, held
\* back by the clamp, both end at workEnd
C22_Witness ==
    \E k, j, n \in 1..Len(blocks) :
        /\ k < j /\ j < n
        /\ blocks[k].date = blocks[j].date /\ blocks[j].date = blocks[n].date
        /\ \A m \in {k, j, n} : blocks[m].sortOrder \in {2, 3, 4}
        /\ EndMins(blocks[j]) = workEndMins
        /\ EndMins(blocks[n]) = workEndMins

\* blocks of passes 2 and 3 are stacked on one date of a window of less than an
\* hour
StackedInShortWindow(bs) ==
    /\ workEndMins - workStartMins < 60
    /\ \E k, j \in 1..Len(bs) :
          /\ k < j
          /\ bs[k].date = bs[j].date
          /\ bs[k].sortOrder \in {2, 3}
          /\ bs[j].sortOrder \in {2, 3}

PastMidnight(b) ==
    \/ StartMins(b) >= 1440
    \/ EndMins(b) >= 1440
    \/ b.startTime[1] >= 24
    \/ b.endTime[1] >= 24

\* C23, as stated: when tasks are stacked in a short work window, with workStart
\* and workEnd valid clock times, the run returns a block of pass 2 or pass 3
\* whose start or end is 1440 minutes or more (an hour component of 24 or more).
C23_StackingPassesMidnight ==
    (Done /\ StackedInShortWindow(output))
        => \E k \in 1..Len(output) :
              output[k].sortOrder \in {2, 3} /\ PastMidnight(output[k])

\* C23, amended: with workStart and workEnd valid clock times, no block of pass
\* 2 or pass 3 has a start or an end of 1440 minutes or more, nor an hour
\* component of 24 or more, however many blocks are stacked on its date: its
\* end is at most workEnd and its start lies before its end.
C23_StackedWithinDay ==
    \A k \in 1..Len(blocks) :
        blocks[k].sortOrder \in {2, 3} =>
            /\ ~PastMidnight(blocks[k])
            /\ EndMins(blocks[k]) <= workEndMins
            /\ StartMins(blocks[k]) < EndMins(blocks[k])

\* the run on the window 23:00-23:59 has returned four blocks of pass 2 on one
\* date, the last of them ending at 23:59
C23_Witness ==
    /\ Done
    /\ capacity.workEnd = <<23, 59>>
    /\ Len(output) = 4
    /\ \A k \in 1..4 : output[k].sortOrder = 2 /\ output[k].date = weekStart
    /\ output[4].endTime = <<23, 59>>

(***************************************************************************)
(* timeToMinutes and minutesToTime on text (store.ts 241-250).  A text is  *)
(* the sequence of its characters.  minutesToTime is called on totalArg,   *)
(* then timeToMinutes on the text it returned.                             *)
(***************************************************************************)
MaxTotal == 1600

DigitChars == <<"0", "1", "2", "3", "4", "5", "6", "7", "8", "9">>

IsDigit(c) == \E d \in 1..10 : DigitChars[d] = c

DigitValue(c) == (CHOOSE d \in 1..10 : DigitChars[d] = c) - 1

\* String(n) for an integer n >= 0
RECURSIVE String(_)
String(n) ==
    IF n < 10 THEN <<DigitChars[n + 1]>>
    ELSE Append(String(n \div 10), DigitChars[(n % 10) + 1])

\* str.padStart(len, ch)
RECURSIVE padStart(_, _, _)
padStart(str, len, ch) ==
    IF Len(str) >= len THEN str ELSE padStart(<<ch>> \o str, len, ch)

\* str.split(sep)
RECURSIVE split(_, _)
split(str, sep) ==
    LET at == {k \in 1..Len(str) : str[k] = sep}
    IN  IF at = {} THEN <<str>>
        ELSE LET k == CHOOSE n \in at : \A m \in at : n <= m
             IN  <<SubSeq(str, 1, k - 1)>> \o split(SubSeq(str, k + 1, Len(str)), sep)

\* Number(str) for a text without sign, point or blanks: 0 for the empty text,
\* NaN for a text with a character that is not a digit
RECURSIVE Number(_)
Number(str) ==
    IF str = <<>> THEN 0
    ELSE IF \E k \in 1..Len(str) : ~IsDigit(str[k]) THEN NaN
    ELSE Number(SubSeq(str, 1, Len(str) - 1)) * 10 + DigitValue(str[Len(str)])

\* minutesToTime with the hour wrapped to the next day
minutesToTimeWrapped(mins) ==
    padStart(String((mins \div 60) % 24), 2, "0") \o <<":">>
        \o padStart(String(JsRem(mins, 60)), 2, "0")

\* minutesToTime, for total >= 0
minutesToTimeText(mins) ==
    padStart(String(mins \div 60), 2, "0") \o <<":">>
        \o padStart(String(JsRem(mins, 60)), 2, "0")

\* timeToMinutes: const [h, m] = t.split(':').map(Number); h * 60 + m
timeToMinutesOfText(t) ==
    LET fields == split(t, ":")
        h == Number(fields[1])
        m == IF Len(fields) >= 2 THEN Number(fields[2]) ELSE NaN
    IN  IF IsNaN(h) \/ IsNaN(m) THEN NaN ELSE h * 60 + m

CallMinutesToTime ==
    /\ pc = "idle"
    /\ clockStr = None
    /\ clockStr' = Some(minutesToTimeText(totalArg))
    /\ UNCHANGED <<scheduler, listing, adding, sync, totalArg, parsed>>

CallTimeToMinutes ==
    /\ pc = "idle"
    /\ clockStr # None
    /\ parsed = None
    /\ parsed' = Some(timeToMinutesOfText(Val(clockStr)))
    /\ UNCHANGED <<scheduler, listing, adding, sync, totalArg, clockStr>>

\* no run of the allocator: an empty store
SchedulerIdle ==
    /\ weekStart = 0
    /\ tasks = <<>>
    /\ goals = <<>>
    /\ capacity = DEFAULT_CAPACITY
    /\ idPool = {0}
    /\ blocks = <<>>
    /\ pc = "idle"
    /\ i = 1
    /\ di = 1
    /\ scheduledTaskIds = {}
    /\ goalTasks = <<>>
    /\ sessionsPlaced = 0
    /\ output = <<>>
    /\ prevOutput = None
    /\ scheduledBlocks = <<>>
    /\ check = None
    /\ rendered = goals

InitClock ==
    /\ SchedulerIdle
    /\ totalArg \in 0..MaxTotal
    /\ clockStr = None
    /\ parsed = None
    /\ ListingIdle
    /\ AddingIdle
    /\ SyncIdle

NextClock ==
    \/ CallMinutesToTime
    \/ CallTimeToMinutes

SpecClock == InitClock /\ [][NextClock]_vars

\* a text HH:mm with HH in 00..23 and mm in 00..59
ValidClock(t) ==
    /\ Len(t) = 5
    /\ t[3] = ":"
    /\ \A k \in {1, 2, 4, 5} : IsDigit(t[k])
    /\ Number(SubSeq(t, 1, 2)) <= 23
    /\ Number(SubSeq(t, 4, 5)) <= 59

\* C24: minutesToTime performs no wrap: for an integer m in 0..1439 the text is
\* a valid HH:mm and timeToMinutes of it is m; for m >= 1440 the hour
\* component is floor(m / 60) >= 24, the text is not a valid HH:mm, and
\* timeToMinutes of it is still m.
C24_NoWrapRoundTrip ==
    /\ clockStr # None =>
          LET t == Val(clockStr)
              hour == Number(split(t, ":")[1])
          IN  /\ hour = totalArg \div 60
              /\ (totalArg <= 1439) => ValidClock(t)
              /\ (totalArg >= 1440) => (hour >= 24 /\ ~ValidClock(t))
    /\ parsed # None => Val(parsed) = totalArg

\* minutesToTime(1505) returned 25:05, and timeToMinutes of it was computed
C24_Witness ==
    /\ totalArg = 1505
    /\ clockStr = Some(<<"2", "5", ":", "0", "5">>)
    /\ parsed # None

(***************************************************************************)
(* scheduleListIntoCalendar (part_002 329-377).  An instant is a number of *)
(* seconds from 00:00 local time of today; day d is the d-th day after     *)
(* today.  An ISO text is held as the instant new Date(text).getTime()     *)
(* gives for it; toLocalISO, which prints ":00" for the seconds, is the    *)
(* instant of the text it prints.  A title is the position of the item in  *)
(* the list.                                                               *)
(***************************************************************************)
MaxItems == 2
MaxEvents == 2

\* the options MyList passes: 08:00, 22:00, 14
ListDayStart == 8 * 3600
ListDayEnd == 22 * 3600
ListDaysAhead == 14

MinSlotMins == 15
MaxSlotMins == 240
RoundSecs == 15 * 60

\* toLocalISO(new Date(t)), read back as an instant
toLocalISO(t) == t - (t % 60)

Event(start, end, allDay) == [start |-> start, end |-> end, allDay |-> allDay]

RECURSIVE InsertRange(_, _)
InsertRange(r, sorted) ==
    IF sorted = <<>> THEN <<r>>
    ELSE IF r[1] < Head(sorted)[1] THEN <<r>> \o sorted
    ELSE <<Head(sorted)>> \o InsertRange(r, Tail(sorted))

\* ranges.sort((a, b) => a[0] - b[0]), a stable sort
RECURSIVE SortRanges(_)
SortRanges(rs) ==
    IF rs = <<>> THEN <<>>
    ELSE InsertRange(rs[Len(rs)], SortRanges(SubSeq(rs, 1, Len(rs) - 1)))

RECURSIVE RangesOf(_, _)
RangesOf(events, day) ==
    IF events = <<>> THEN <<>>
    ELSE LET ev == Head(events)
             dayStart == day * 86400
             dayEnd == day * 86400 + 86399
             s == IF dayStart >= ev.start THEN dayStart ELSE ev.start
             e == IF dayEnd <= ev.end THEN dayEnd ELSE ev.end
             rest == RangesOf(Tail(events), day)
         IN  IF ev.allDay THEN <<<<dayStart, dayEnd>>>> \o rest
             ELSE IF s < e THEN <<<<s, e>>>> \o rest
             ELSE rest

getBusyRangesForDay(events, day) == SortRanges(RangesOf(events, day))

\* the for loop of findSlotOnDay over busyRanges, from position k
RECURSIVE Sweep(_, _, _, _, _)
Sweep(cursor, durationSecs, busyRanges, k, dayEndTime) ==
    IF k > Len(busyRanges)
       THEN IF cursor + durationSecs <= dayEndTime
               THEN Some([start |-> toLocalISO(cursor),
                          end |-> toLocalISO(cursor + durationSecs)])
               ELSE None
    ELSE IF cursor + durationSecs <= busyRanges[k][1]
            THEN Some([start |-> toLocalISO(cursor),
                       end |-> toLocalISO(cursor + durationSecs)])
    ELSE Sweep(IF cursor >= busyRanges[k][2] THEN cursor ELSE busyRanges[k][2],
               durationSecs, busyRanges, k + 1, dayEndTime)

\* minStart is None when minStartMs is undefined
findSlotOnDay(day, durationMinutes, busyRanges, dayStart, dayEnd, minStart) ==
    LET dayStartTime == day * 86400 + dayStart
        dayEndTime == day * 86400 + dayEnd
        cursor == IF IsSet(minStart) /\ Val(minStart) > dayStartTime
                     THEN Val(minStart) ELSE dayStartTime
    IN  IF cursor >= dayEndTime THEN None
        ELSE Sweep(cursor, durationMinutes * 60, busyRanges, 1, dayEndTime)

\* Math.ceil(nowMs / (15 * 60 * 1000)) * (15 * 60 * 1000)
roundedNow == CeilDiv(nowSecs, RoundSecs) * RoundSecs

\* Math.max(15, Math.min(240, item.estimatedMinutes))
SlotDuration(item) ==
    LET capped == IF item.estimatedMinutes <= MaxSlotMins THEN item.estimatedMinutes
                  ELSE MaxSlotMins
    IN  IF capped >= MinSlotMins THEN capped ELSE MinSlotMins

\* the loop  for (let d = 0; d < daysAhead; d++)  from d on: the slot found for
\* item, if any; dateStr is the UTC date of local noon of day d
RECURSIVE SlotFrom(_, _, _)
SlotFrom(item, events, d) ==
    IF d >= ListDaysAhead THEN None
    ELSE LET day == d + dayShift
             slot == findSlotOnDay(day, SlotDuration(item),
                                   getBusyRangesForDay(events, day),
                                   ListDayStart, ListDayEnd,
                                   IF day = 0 THEN Some(roundedNow) ELSE None)
         IN  IF IsSet(item.deadline) /\ day > Val(item.deadline)
                THEN SlotFrom(item, events, d + 1)
             ELSE IF IsSet(slot) THEN slot
             ELSE SlotFrom(item, events, d + 1)

\* one iteration of  for (const item of items)
ScheduleItem ==
    /\ pc = "idle"
    /\ ~returned
    /\ itemPos <= Len(listItems)
    /\ LET item == listItems[itemPos]
           slot == SlotFrom(item, eventsSoFar, 0)
       IN  IF IsSet(slot)
              THEN /\ slots' = Append(slots, [title |-> item.title,
                                               start |-> Val(slot).start,
                                               end |-> Val(slot).end])
                   /\ eventsSoFar' = Append(eventsSoFar,
                                            Event(Val(slot).start, Val(slot).end, FALSE))
              ELSE UNCHANGED <<slots, eventsSoFar>>
    /\ itemPos' = itemPos + 1
    /\ UNCHANGED <<scheduler, clock, adding, sync, listItems, existingEvents, nowSecs,
                   dayShift, returned>>

\* return slots
ReturnSlots ==
    /\ pc = "idle"
    /\ ~returned
    /\ itemPos > Len(listItems)
    /\ returned' = TRUE
    /\ UNCHANGED <<scheduler, clock, adding, sync, listItems, existingEvents, nowSecs,
                   dayShift, eventsSoFar, slots, itemPos>>

Item(estimatedMinutes, deadline) ==
    [title |-> 0, estimatedMinutes |-> estimatedMinutes, deadline |-> deadline]

ItemPool ==
    { Item(10, None), Item(30, None), Item(30, Some(0)), Item(300, None), Item(840, Some(1)) }

\* events of today and tomorrow: an hour from 08:00, half an hour and thirty
\* seconds from 08:00, 08:20 to 08:50, an all-day event, an event from 21:00
\* to 09:00 of the next day, and one that fills the window of tomorrow
EventPool ==
    { Event(8 * 3600, 9 * 3600, FALSE),
      Event(8 * 3600, 8 * 3600 + 30 * 60 + 30, FALSE),
      Event(8 * 3600 + 20 * 60, 8 * 3600 + 50 * 60, FALSE),
      Event(0, 0, TRUE),
      Event(21 * 3600, 86400 + 9 * 3600, FALSE),
      Event(86400 + 8 * 3600, 86400 + 22 * 3600, FALSE) }

\* lists of at most n elements of pool
ListsUpTo(pool, n) == UNION { [1..k -> pool] : k \in 0..n }

Titled(list) == [k \in 1..Len(list) |-> [list[k] EXCEPT !.title = k]]

\* the call is made at 07:50:10, at 08:07 or at 21:50
NowPool == { 7 * 3600 + 50 * 60 + 10, 8 * 3600 + 7 * 60, 21 * 3600 + 50 * 60 }

InitListing ==
    /\ SchedulerIdle
    /\ ClockIdle
    /\ AddingIdle
    /\ SyncIdle
    /\ listItems \in {Titled(l) : l \in ListsUpTo(ItemPool, MaxItems)}
    /\ existingEvents \in ListsUpTo(EventPool, MaxEvents)
    /\ nowSecs \in NowPool
    /\ dayShift \in {0, -1}
    /\ eventsSoFar = existingEvents
    /\ slots = <<>>
    /\ itemPos = 1
    /\ returned = FALSE

NextListing ==
    \/ ScheduleItem
    \/ ReturnSlots

SpecListing == InitListing /\ [][NextListing]_vars

\* the interval of an event: its day for an all-day event
EventStart(ev) == IF ev.allDay THEN ev.start - (ev.start % 86400) ELSE ev.start
EventEnd(ev) == IF ev.allDay THEN ev.start - (ev.start % 86400) + 86400 ELSE ev.end

Disjoint(s1, e1, s2, e2) == ~(s1 < e2 /\ s2 < e1)

\* C25: every slot scheduleListIntoCalendar returns is disjoint in time from
\* every existing event passed in and from every other returned slot, and each
\* item gets at most one slot.
C25_SlotsDisjoint ==
    returned =>
        /\ \A k \in 1..Len(slots) : \A n \in 1..Len(existingEvents) :
              Disjoint(slots[k].start, slots[k].end,
                       EventStart(existingEvents[n]), EventEnd(existingEvents[n]))
        /\ \A k, j \in 1..Len(slots) :
              k # j => Disjoint(slots[k].start, slots[k].end, slots[j].start, slots[j].end)
        /\ \A n \in 1..Len(listItems) :
              Cardinality({k \in 1..Len(slots) : slots[k].title = listItems[n].title}) <= 1

(***************************************************************************)
(* Stacking of the blocks of passes 2, 3 and 4 on a date.                  *)
(***************************************************************************)
\* C26: when pass 1 has no task to place and maxPlannedHoursPerDay * 60 is at
\* most workEnd - workStart, the blocks of passes 2, 3 and 4 on one date are
\* pairwise disjoint in time: each starts at or after the end of every block
\* placed earlier on that date.
C26_StackedDisjoint ==
    (fixedTasks = <<>> /\ MaxMins <= workEndMins - workStartMins)
        => \A k, j \in 1..Len(blocks) :
              (k < j /\ blocks[k].date = blocks[j].date)
                  => StartMins(blocks[j]) >= EndMins(blocks[k])

\* the run of a store without fixed tasks has returned a block of pass 2 and a
\* block of pass 4 on one date, the second starting where the planned minutes
\* of the first end
C26_Witness ==
    /\ Done
    /\ fixedTasks = <<>>
    /\ MaxMins <= workEndMins - workStartMins
    /\ \E k, j \in 1..Len(output) :
          /\ output[k].date = output[j].date
          /\ output[k].sortOrder = 2
          /\ output[j].sortOrder = 4
          /\ StartMins(output[j]) = EndMins(output[k]) + output[k].bufferMinutes

\* C27: in passes 2 and 3 a block appended after wouldExceedDailyLimits
\* returned ok never takes the day over the cap: if the planned minutes of its
\* date are at most maxPlannedHoursPerDay * 60 before the append, they still
\* are after it.
C27_AppendKeepsCap ==
    [][ (/\ pc \in {"pass2", "pass3dates"}
         /\ Len(blocks') = Len(blocks) + 1)
        => LET date == blocks'[Len(blocks')].date
           IN  getPlannedMinutesForDay(blocks, date) <= MaxMins
                  => getPlannedMinutesForDay(blocks', date) <= MaxMins
      ]_vars

\* C28: with workStart <= workEnd, every block placed by passes 2, 3 and 4
\* starts at or after capacity.workStart.
C28_StartsAtOrAfterWorkStart ==
    workStartMins <= workEndMins
        => \A k \in 1..Len(blocks) :
              blocks[k].sortOrder \in {2, 3, 4}
                  => StartMins(blocks[k]) >= workStartMins

(***************************************************************************)
(* Calendar events added from the list (App.tsx 152, useStore.ts 363-375). *)
(* onAddCalendarEvents calls addEvent once per slot; each call dispatches  *)
(* a setCalendarEvents update whose array is built from the                *)
(* state.calendarEvents that the addEvent of the last render captured.     *)
(* React applies the dispatched updates in order, then renders again.      *)
(***************************************************************************)
MaxSlots == 3

SlotPool == {[title |-> 1, start |-> 8 * 3600, end |-> 9 * 3600],
             [title |-> 2, start |-> 9 * 3600, end |-> 10 * 3600],
             [title |-> 3, start |-> 10 * 3600, end |-> 10 * 3600 + 900]}

\* the lists scheduleListIntoCalendar may return: no slot twice
SlotLists ==
    {l \in ListsUpTo(SlotPool, MaxSlots) :
        \A k, j \in 1..Len(l) : k # j => l[k] # l[j]}

\* the event addEvent builds for a slot; its id is never read again
EventOfSlot(slot) == [title |-> slot.title, start |-> slot.start, end |-> slot.end]

\* slots.forEach((s) => calendar.addEvent(...)): the setCalendarEvents updates
\* dispatched, each [...state.calendarEvents, event] on the captured array
Dispatched(seen, handed) ==
    [k \in 1..Len(handed) |-> Append(seen, EventOfSlot(handed[k]))]

\* onAddCalendarEvents(slots), called on a rendered component
AddCalendarEvents ==
    /\ pc = "idle"
    /\ updates = <<>>
    /\ eventsSeen = calendarEvents
    /\ \E handed \in SlotLists :
          /\ Len(calendarEvents) + Len(handed) <= MaxSlots + 1
          /\ handedSlots' = handed
          /\ updates' = Dispatched(eventsSeen, handed)
    /\ UNCHANGED <<scheduler, clock, listing, sync, calendarEvents, eventsSeen>>

\* setState((s) => applyUpdate(s, update)) for the oldest update
ApplyUpdate ==
    /\ pc = "idle"
    /\ updates # <<>>
    /\ calendarEvents' = Head(updates)
    /\ updates' = Tail(updates)
    /\ UNCHANGED <<scheduler, clock, listing, sync, eventsSeen, handedSlots>>

\* the render after the updates: addEvent captures state.calendarEvents
RenderCalendar ==
    /\ pc = "idle"
    /\ updates = <<>>
    /\ eventsSeen # calendarEvents
    /\ eventsSeen' = calendarEvents
    /\ UNCHANGED <<scheduler, clock, listing, sync, calendarEvents, updates, handedSlots>>

InitAdding ==
    /\ SchedulerIdle
    /\ ClockIdle
    /\ ListingIdle
    /\ SyncIdle
    /\ calendarEvents \in {<<>>, <<EventOfSlot([title |-> 0, start |-> 0, end |-> 3600])>>}
    /\ eventsSeen = calendarEvents
    /\ updates = <<>>
    /\ handedSlots = <<>>

NextAdding ==
    \/ AddCalendarEvents
    \/ ApplyUpdate
    \/ RenderCalendar

SpecAdding == InitAdding /\ [][NextAdding]_vars

\* C29: when k >= 2 slots are handed to onAddCalendarEvents, all k events are
\* in state.calendarEvents once the dispatched updates are applied, together
\* with the events that were there before.
C29_AllEventsAdded ==
    [][ (updates # <<>> /\ updates' = <<>> /\ Len(handedSlots) >= 2)
        => /\ Len(calendarEvents') = Len(eventsSeen) + Len(handedSlots)
           /\ \A k \in 1..Len(handedSlots) :
                 \E n \in 1..Len(calendarEvents') :
                     calendarEvents'[n] = EventOfSlot(handedSlots[k])
      ]_vars

(***************************************************************************)
(* Sign-in, load and save (useStore.ts 8-41, persistence.ts 13-52).  A     *)
(* state of the application is a record of where its data comes from and   *)
(* how many edits the user made to it.  Supabase is configured and the     *)
(* session of a signed-in user is valid.  The network decides when the     *)
(* select of loadFromSupabase reads the row and when its promise resolves; *)
(* the debounce timer fires 1500 ms after the last saveToSupabase, before  *)
(* or after either.                                                        *)
(***************************************************************************)
MaxEdits == 2

Data(origin, edits) == [origin |-> origin, edits |-> edits]

\* the persist effect of a render with the state st:
\* saveToSupabase(st) when signed in, else saveLocal(st)
PersistEffect(st, isSignedIn) ==
    IF isSignedIn
       THEN /\ pendingState' = Some(st)
            /\ saveTimeout' = TRUE
       ELSE UNCHANGED <<pendingState, saveTimeout>>

\* the user signs in: the render with signedIn true runs the load effect, which
\* calls loadFromSupabase once, and then the persist effect on the local state
SignIn ==
    /\ pc = "idle"
    /\ ~signedIn
    /\ signedIn' = TRUE
    /\ stateAtSignIn' = appState
    /\ cloudLoadedRef' = TRUE
    /\ loadPhase' = IF cloudLoadedRef THEN loadPhase ELSE "started"
    /\ PersistEffect(Val(appState), TRUE)
    /\ UNCHANGED <<scheduler, clock, listing, adding, appState, cloudRow, loadResult, toSave>>

\* the select of loadFromSupabase reads the row of the user
LoadSelect ==
    /\ pc = "idle"
    /\ loadPhase = "started"
    /\ loadResult' = cloudRow
    /\ loadPhase' = "read"
    /\ UNCHANGED <<scheduler, clock, listing, adding, signedIn, appState, cloudRow,
                   cloudLoadedRef, saveTimeout, pendingState, toSave, stateAtSignIn>>

\* .then((cloud) => { if (cloud) setState(cloud) }), and the persist effect of
\* the render that follows a setState
LoadResolve ==
    /\ pc = "idle"
    /\ loadPhase = "read"
    /\ loadPhase' = "resolved"
    /\ IF loadResult # None
          THEN /\ appState' = loadResult
               /\ PersistEffect(Val(loadResult), signedIn)
          ELSE UNCHANGED <<appState, pendingState, saveTimeout>>
    /\ UNCHANGED <<scheduler, clock, listing, adding, signedIn, cloudRow, cloudLoadedRef,
                   loadResult, toSave, stateAtSignIn>>

\* the callback of setTimeout starts: it takes pendingState
TimerFires ==
    /\ pc = "idle"
    /\ saveTimeout
    /\ toSave = None
    /\ saveTimeout' = FALSE
    /\ toSave' = pendingState
    /\ pendingState' = None
    /\ UNCHANGED <<scheduler, clock, listing, adding, signedIn, appState, cloudRow,
                   cloudLoadedRef, loadPhase, loadResult, stateAtSignIn>>

\* client.from('user_state').upsert({ id, state: toSave, ... })
Upsert ==
    /\ pc = "idle"
    /\ toSave # None
    /\ cloudRow' = toSave
    /\ toSave' = None
    /\ UNCHANGED <<scheduler, clock, listing, adding, signedIn, appState, cloudLoadedRef,
                   loadPhase, loadResult, saveTimeout, pendingState, stateAtSignIn>>

\* the user changes something: dispatch, and the persist effect of the render
EditState ==
    /\ pc = "idle"
    /\ Val(appState).edits < MaxEdits
    /\ appState' = Some([Val(appState) EXCEPT !.edits = @ + 1])
    /\ PersistEffect(Val(appState'), signedIn)
    /\ UNCHANGED <<scheduler, clock, listing, adding, signedIn, cloudRow, cloudLoadedRef,
                   loadPhase, loadResult, toSave, stateAtSignIn>>

InitSync ==
    /\ SchedulerIdle
    /\ ClockIdle
    /\ ListingIdle
    /\ AddingIdle
    /\ signedIn = FALSE
    /\ appState = Some(Data("local", 0))
    /\ cloudRow \in {None, Some(Data("cloud", 0)), Some(Data("cloud", 1))}
    /\ cloudLoadedRef = FALSE
    /\ loadPhase = "none"
    /\ loadResult = None
    /\ saveTimeout = FALSE
    /\ pendingState = None
    /\ toSave = None
    /\ stateAtSignIn = None

NextSync ==
    \/ SignIn
    \/ LoadSelect
    \/ LoadResolve
    \/ TimerFires
    \/ Upsert
    \/ EditState

SpecSync == InitSync /\ [][NextSync]_vars

\* C30: on sign-in the cloud state is loaded before local state is pushed up:
\* while the load has not resolved, the existing cloud row of the user is never
\* upserted with the state the application held when the user signed in.
C30_LoadBeforePush ==
    [][ (/\ cloudRow # None
         /\ signedIn
         /\ loadPhase \in {"started", "read"}
         /\ cloudRow' # cloudRow)
        => cloudRow' # stateAtSignIn
      ]_vars

====
